---- MODULE Spec2Model ----
(***************************************************************************)
(* View configuration and request dispatch of repoze.bfg                   *)
(* (src/repoze/bfg/configuration.py): the predicate compiler               *)
(* (_make_predicates), the view deriver (_derive_view and its layers), the *)
(* MultiView candidate set and the registration procedure                  *)
(* Configurator.add_view.                                                  *)
(***************************************************************************)
EXTENDS Integers, Sequences, FiniteSets, TLC

VARIABLES
    registry,     \* adapter registrations: key -> provided interface -> object
    multiviews,   \* the MultiView objects, by identity (a registry slot holds a reference)
    views,        \* the derived views made by add_view so far, in registration order
    authn_policy, \* an IAuthenticationPolicy utility is registered
    authz_policy, \* an IAuthorizationPolicy utility is registered
    debug_authorization, \* settings['debug_authorization']
    hash_order,   \* iteration order of a set of accept strings (list(set(...)))
    last,         \* what the last operation did: its input and its outcome
    score_in,     \* the inputs of _make_predicates under study
    score_out,    \* its outputs
    instances,    \* the instances of view classes created so far
    route_requests, \* the route names an IRouteRequest utility is registered for
    threads,      \* the calls under way, one per thread
    lock,         \* the threading.Lock objects of load_zcml: the thread that holds each
    manager       \* repoze.bfg.threadlocal.manager: the stack of each thread

vars == <<registry, multiviews, views, authn_policy, authz_policy,
          debug_authorization, hash_order, last, score_in, score_out,
          instances, route_requests, threads, lock, manager>>

(***************************************************************************)
(* Bounds and program constants                                            *)
(***************************************************************************)

\* Python's None
None == "None"

\* sys.maxint of a 32-bit build (2**31 - 1)
MaxInt == 2147483647

\* the weights _make_predicates subtracts, one per predicate kind
W_xhr == 10
W_request_method == 20
W_path_info == 30
W_request_param == 40
W_header == 50
W_accept == 60
W_containment == 70

\* how many add_view calls a run makes
MaxViews == 3

\* how many instances of view classes a run creates
MaxInstances == 2
MaxThreads == 2

\* how many Configurator instances call load_zcml and make_wsgi_app
MaxConfigurators == 2

(***************************************************************************)
(* Predicate compiler                                                      *)
(***************************************************************************)

\* regular expressions: which of the patterns used re.compile rejects
InvalidPatterns == {"("}

\* a mutant of re_compile_ok: every pattern compiles
re_compile_ok_always(pattern) == TRUE

\* re.compile(pattern) does not raise re.error
re_compile_ok(pattern) == pattern \notin InvalidPatterns

\* re.match(pattern, string) for the patterns above; None (no value) never matches
re_match(pattern, string) ==
    CASE pattern = "/a.*" -> string \in {"/a", "/ab"}
      [] pattern = "Moz.*" -> string \in {"Moz", "Mozilla"}
      [] OTHER -> FALSE

\* str.split(sep, 1) of the option strings used: <<name, value>>
SplitOnce(s) ==
    CASE s = "foo=1" -> <<"foo", "1">>
      [] s = "UA:Moz.*" -> <<"UA", "Moz.*">>
      [] s = "UA:(" -> <<"UA", "(">>
      [] OTHER -> <<s, None>>

HasSep(s) == s \in {"foo=1", "UA:Moz.*", "UA:("}

Pred(kind, arg, val) == [kind |-> kind, arg |-> arg, val |-> val]

\* a mutant of score_of: the aggregate weight is not divided
score_of_nodiv(weight, n) == weight

\* a mutant of score_of: the weights are added up from zero instead of
\* subtracted from sys.maxint
score_of_sum(weight, n) == (MaxInt - weight) \div (n + 1)

\* score = weight / (len(predicates) + 1): Python 2 integer division of
\* non-negative integers
score_of(weight, n) == weight \div (n + 1)

\* _make_predicates(xhr, request_method, path_info, request_param, header,
\* accept, containment): the predicates in the order they are appended and the
\* score, or the ConfigurationError a bad regular expression raises
_make_predicates(o) ==
    LET p1 == IF o.xhr = TRUE THEN <<Pred("xhr", None, None)>> ELSE <<>>
        w1 == IF o.xhr = TRUE THEN MaxInt - W_xhr ELSE MaxInt
        p2 == IF o.request_method # None
              THEN Append(p1, Pred("request_method", o.request_method, None)) ELSE p1
        w2 == IF o.request_method # None THEN w1 - W_request_method ELSE w1
        bad3 == o.path_info # None /\ ~re_compile_ok(o.path_info)
        p3 == IF o.path_info # None
              THEN Append(p2, Pred("path_info", o.path_info, None)) ELSE p2
        w3 == IF o.path_info # None THEN w2 - W_path_info ELSE w2
        rp == IF o.request_param # None /\ HasSep(o.request_param)
              THEN SplitOnce(o.request_param) ELSE <<o.request_param, None>>
        p4 == IF o.request_param # None
              THEN Append(p3, Pred("request_param", rp[1], rp[2])) ELSE p3
        w4 == IF o.request_param # None THEN w3 - W_request_param ELSE w3
        hd == IF o.header # None /\ HasSep(o.header)
              THEN SplitOnce(o.header) ELSE <<o.header, None>>
        bad5 == o.header # None /\ hd[2] # None /\ ~re_compile_ok(hd[2])
        p5 == IF o.header # None
              THEN Append(p4, Pred("header", hd[1], hd[2])) ELSE p4
        w5 == IF o.header # None THEN w4 - W_header ELSE w4
        p6 == IF o.accept # None
              THEN Append(p5, Pred("accept", o.accept, None)) ELSE p5
        w6 == IF o.accept # None THEN w5 - W_accept ELSE w5
        p7 == IF o.containment # None
              THEN Append(p6, Pred("containment", o.containment, None)) ELSE p6
        w7 == IF o.containment # None THEN w6 - W_containment ELSE w6
    IN  IF bad3 \/ bad5
        THEN [raised |-> "ConfigurationError", score |-> 0, predicates |-> <<>>]
        ELSE [raised |-> None, score |-> score_of(w7, Len(p7)), predicates |-> p7]

\* the option sets _make_predicates is studied on: every combination of the
\* seven options, each absent or present
PredicateOptions ==
    [xhr : {FALSE, TRUE},
     request_method : {None, "GET"},
     path_info : {None, "/a.*", "("},
     request_param : {None, "foo=1"},
     header : {None, "UA:Moz.*"},
     accept : {None, "text/html"},
     containment : {None, "IFolder"}]

(***************************************************************************)
(* Requests and contexts                                                   *)
(***************************************************************************)

MimeTypes == {"text/html", "application/json"}

\* request.accept is the quality each mime type has in the Accept header
\* (0: not acceptable)

\* accept.best_match(offers): the offer of the highest quality above 0, the
\* first such offer of the list when several share it; None when no offer
\* is acceptable
best_match(accept, offers) ==
    LET q(offer) == IF offer \in DOMAIN accept THEN accept[offer] ELSE 0
        ok == {i \in 1..Len(offers) : q(offers[i]) > 0}
        best == {i \in ok : \A j \in ok : q(offers[j]) <= q(offers[i])}
    IN  IF ok = {} THEN None
        ELSE offers[CHOOSE i \in best : \A j \in best : i <= j]

\* offer in request.accept, for a mime type, type/* or */*
in_accept(offer, accept) ==
    CASE offer \in MimeTypes -> accept[offer] > 0
      [] offer = "text/*" -> accept["text/html"] > 0
      [] offer = "*/*" -> \E m \in MimeTypes : accept[m] > 0
      [] OTHER -> FALSE

\* the interfaces a context or a request type provides, most specific first
\* (its __sro__)
sro(iface) == IF iface = "Interface" THEN <<"Interface">> ELSE <<iface, "Interface">>

\* a predicate applied to (context, request) raises instead of answering:
\* header_val.match(None) when the header is absent
predicate_raises(p, context, request) ==
    /\ p.kind = "header"
    /\ p.val # None
    /\ p.arg \notin DOMAIN request.headers

\* the predicate functions _make_predicates defines, applied to (context, request)
eval_predicate(p, context, request) ==
    CASE p.kind = "xhr" -> request.is_xhr
      [] p.kind = "request_method" -> request.method = p.arg
      [] p.kind = "path_info" -> re_match(p.arg, request.path_info)
      [] p.kind = "request_param" ->
            IF p.val = None THEN p.arg \in DOMAIN request.params
            ELSE p.arg \in DOMAIN request.params /\ request.params[p.arg] = p.val
      [] p.kind = "header" ->
            IF p.val = None THEN p.arg \in DOMAIN request.headers
            ELSE p.arg \in DOMAIN request.headers
                 /\ re_match(p.val, request.headers[p.arg])
      [] p.kind = "accept" -> in_accept(p.arg, request.accept)
      [] p.kind = "containment" -> p.arg \in context.lineage
      [] OTHER -> FALSE

(***************************************************************************)
(* View deriver                                                            *)
(*                                                                         *)
(* A view is a record: which raw view it wraps (id), where the outermost   *)
(* function object sorts among function objects (addr), which layers wrap  *)
(* the raw view, and the attributes the outermost function carries.        *)
(***************************************************************************)

NoAttrs == [permitted |-> FALSE, call_permissive |-> FALSE,
            predicated |-> FALSE, accept |-> None]

\* decorate_view(wrapped_view, original_view): the attributes of wrapped_view
\* afterwards; each of __permitted__, __call_permissive__, __predicated__,
\* __accept__ that original_view has overwrites wrapped_view's
decorate_view(wrapped, original) ==
    [permitted |-> wrapped.permitted \/ original.permitted,
     call_permissive |-> wrapped.call_permissive \/ original.call_permissive,
     predicated |-> wrapped.predicated \/ original.predicated,
     accept |-> IF original.accept # None THEN original.accept ELSE wrapped.accept]

\* what is passed to add_view as `view`: a function, a class or an instance
\* with __call__; args and defaults are the argspec of the function, of the
\* class's __init__ or of the instance's __call__ (ndefaults: how many
\* defaults, 0 when the argspec has None for them); behaviour is what calling
\* it does
RawView(callable, args, ndefaults, behaviour) ==
    [callable |-> callable, args |-> args, ndefaults |-> ndefaults,
     behaviour |-> behaviour]

\* view=None
NoRawView == [callable |-> "None"]

\* def view(context, request)
ViewFunction(behaviour) == RawView("function", <<"context", "request">>, 0, behaviour)

\* the arguments requestonly looks at: those of a method without the first
requestonly_args(view) ==
    IF view.callable # "function" /\ view.args # <<>> THEN Tail(view.args)
    ELSE view.args

\* requestonly(class_or_callable) raises: len(defaults) of an argspec
\* without defaults, reached when the first of several arguments is named
\* request
requestonly_raises(view) ==
    LET args == requestonly_args(view)
    IN  Len(args) > 1 /\ args[1] = "request" /\ view.ndefaults = 0

\* requestonly(class_or_callable), attr=None
requestonly(view) ==
    LET args == requestonly_args(view)
    IN  IF args = <<>> THEN FALSE
        ELSE IF Len(args) = 1 THEN TRUE
        ELSE IF args[1] = "request" THEN Len(args) - view.ndefaults = 1
        ELSE FALSE

\* the renderer names setup_registry registers a factory for (DEFAULT_RENDERERS)
RendererNames == {".pt", ".txt", "json", "string"}

\* Configurator._renderer_from_name(path_or_spec) raises ValueError
renderer_raises(renderer_name) ==
    renderer_name # None /\ renderer_name \notin RendererNames

\* Configurator._renderer_from_name(path_or_spec), for names without a dot
\* and no default renderer factory
_renderer_from_name(renderer_name) == renderer_name

\* a mutant of _map_view: a class is instantiated once, when the view is derived
_map_view_shared(id, addr, view, renderer) ==
    [id |-> id, addr |-> addr, behaviour |-> view.behaviour,
     mapped |-> IF view.callable = "class" THEN "instance"
                ELSE IF requestonly(view) THEN "requestonly"
                ELSE IF renderer # None THEN "rendered"
                ELSE "view",
     renderer |-> renderer,
     secured |-> FALSE, permission |-> None, debug |-> FALSE,
     debug_policies |-> FALSE, predicates |-> <<>>, accepting |-> FALSE,
     wrapper |-> None, layers |-> <<>>, attrs |-> NoAttrs]

\* _map_view(view, attr, renderer, renderer_name), attr=None: which wrapper
\* is put around the view (mapped), "view" when it is left as it is
_map_view(id, addr, view, renderer) ==
    [id |-> id, addr |-> addr, behaviour |-> view.behaviour,
     mapped |-> IF view.callable = "class"
                THEN IF requestonly(view) THEN "class_requestonly" ELSE "class"
                ELSE IF requestonly(view) THEN "requestonly"
                ELSE IF renderer # None THEN "rendered"
                ELSE "view",
     renderer |-> renderer,
     secured |-> FALSE, permission |-> None, debug |-> FALSE,
     debug_policies |-> FALSE, predicates |-> <<>>, accepting |-> FALSE,
     wrapper |-> None, layers |-> <<>>, attrs |-> NoAttrs]

\* the attributes rendered_response takes for those of a response
ResponseAttrs == {"app_iter", "headerlist", "status"}

\* the request attributes rendered_response copies to the response it makes
ResponseOverrides ==
    {"response_content_type", "response_headerlist", "response_status",
     "response_charset", "response_cache_for"}

\* what a raw view returned: an object with some attributes; rendered_by and
\* overrides say which renderer made the body of a response and which
\* request attributes were copied to it
Result(attrs) == [attrs |-> attrs, rendered_by |-> None, overrides |-> {}]

\* a mutant of is_response: one of the three attributes is enough
is_response_any(response) == \E a \in ResponseAttrs : a \in response.attrs

\* hasattr(response, 'app_iter') and hasattr(response, 'headerlist') and
\* hasattr(response, 'status')
is_response(response) == \A a \in ResponseAttrs : a \in response.attrs

\* rendered_response(renderer, response, view, context, request,
\* renderer_name) with a request: the renderer is called with the result,
\* a Response is made of what it returns and the request attributes that
\* are not None are copied to it
rendered_response(renderer, response, request) ==
    IF is_response(response) THEN response
    ELSE [attrs |-> ResponseAttrs, rendered_by |-> renderer,
          overrides |-> {a \in ResponseOverrides : request[a] # None}]

\* the function _map_view puts around the view, called when the view has
\* returned response
mapped_response(view, response, request) ==
    IF view.renderer # None
    THEN rendered_response(view.renderer, response, request)
    ELSE response

\* _owrap_view(view, viewname, wrapper_viewname)
_owrap_view(view, viewname, wrapper_viewname) ==
    IF wrapper_viewname = None THEN view
    ELSE [view EXCEPT !.wrapper = wrapper_viewname,
                      !.layers = Append(@, "owrap"),
                      !.attrs = decorate_view(NoAttrs, view.attrs)]

\* a mutant of _secure_view: the permission check is never installed
_secure_view_never(view, permission, authn, authz) == view

\* a mutant of _secure_view: one policy is enough for the permission check
_secure_view_any_policy(view, permission, authn, authz) ==
    IF (authn \/ authz) /\ permission # None
    THEN [view EXCEPT !.secured = TRUE, !.permission = permission,
                      !.layers = Append(@, "secured"),
                      !.attrs = decorate_view(
                          [NoAttrs EXCEPT !.call_permissive = TRUE,
                                          !.permitted = TRUE], view.attrs)]
    ELSE view

\* _secure_view(view, permission, authn_policy, authz_policy)
_secure_view(view, permission, authn, authz) ==
    IF authn /\ authz /\ permission # None
    THEN [view EXCEPT !.secured = TRUE, !.permission = permission,
                      !.layers = Append(@, "secured"),
                      !.attrs = decorate_view(
                          [NoAttrs EXCEPT !.call_permissive = TRUE,
                                          !.permitted = TRUE], view.attrs)]
    ELSE view

\* _authdebug_view(view, permission, authn_policy, authz_policy, settings, logger)
_authdebug_view(view, permission, authn, authz, debug) ==
    IF debug
    THEN [view EXCEPT !.debug = TRUE, !.debug_policies = authn /\ authz,
                      !.permission = permission,
                      !.layers = Append(@, "authdebug"),
                      !.attrs = decorate_view(NoAttrs, view.attrs)]
    ELSE view

\* _predicate_wrap(view, predicates)
_predicate_wrap(view, predicates) ==
    IF predicates = <<>> THEN view
    ELSE [view EXCEPT !.predicates = predicates,
                      !.layers = Append(@, "predicated"),
                      !.attrs = decorate_view(
                          [NoAttrs EXCEPT !.predicated = TRUE], view.attrs)]

\* _accept_wrap(view, accept): accept_view carries __accept__ and nothing else
\* (decorate_view is not called)
_accept_wrap(view, accept) ==
    IF accept = None THEN view
    ELSE [view EXCEPT !.accepting = TRUE,
                      !.layers = Append(@, "accept"),
                      !.attrs = [NoAttrs EXCEPT !.accept = accept]]

\* a mutant of _derive_view: the permission check is wrapped around the
\* predicate gate
_derive_view_secure_last(id, addr, view, permission, predicates, renderer_name, wrapper_viewname, viewname, accept, authn, authz, debug) ==
    LET renderer == _renderer_from_name(renderer_name)
        mapped_view == _map_view(id, addr, view, renderer)
        owrapped_view == _owrap_view(mapped_view, viewname, wrapper_viewname)
        debug_view == _authdebug_view(owrapped_view, permission, authn, authz, debug)
        predicated_view == _predicate_wrap(debug_view, predicates)
        secured_view == _secure_view(predicated_view, permission, authn, authz)
    IN  _accept_wrap(secured_view, accept)

\* Configurator._derive_view(view, permission, predicates, attr, renderer_name,
\* wrapper_viewname, viewname, accept), without attr: each layer is wrapped
\* around the one before (layers lists them, innermost first)
_derive_view(id, addr, view, permission, predicates, renderer_name, wrapper_viewname, viewname, accept, authn, authz, debug) ==
    LET renderer == _renderer_from_name(renderer_name)
        mapped_view == _map_view(id, addr, view, renderer)
        owrapped_view == _owrap_view(mapped_view, viewname, wrapper_viewname)
        secured_view == _secure_view(owrapped_view, permission, authn, authz)
        debug_view == _authdebug_view(secured_view, permission, authn, authz, debug)
        predicated_view == _predicate_wrap(debug_view, predicates)
    IN  _accept_wrap(predicated_view, accept)

(***************************************************************************)
(* MultiView                                                               *)
(***************************************************************************)

\* MultiView.__init__(name)
MultiView(name) == [name |-> name, media_views |-> <<>>, views |-> <<>>, accepts |-> <<>>]

\* (score, view) tuples compare by score, then by the view objects
\* themselves: function objects order by address
tuple_le(a, b) == a[1] < b[1] \/ (a[1] = b[1] /\ a[2].addr <= b[2].addr)

RECURSIVE insert_sorted(_, _)
insert_sorted(sorted, x) ==
    IF sorted = <<>> THEN <<x>>
    ELSE IF tuple_le(sorted[Len(sorted)], x) THEN Append(sorted, x)
    ELSE Append(insert_sorted(SubSeq(sorted, 1, Len(sorted) - 1), x),
                sorted[Len(sorted)])

\* a mutant of list_sort: the list is left as it is
list_sort_noop(list) == list

\* list.sort(): stable, ascending
RECURSIVE list_sort(_)
list_sort(list) ==
    IF list = <<>> THEN <<>>
    ELSE insert_sorted(list_sort(SubSeq(list, 1, Len(list) - 1)), list[Len(list)])

\* list(set(accepts)): the elements in the set's iteration order
list_of_set(set, order) == SelectSeq(order, LAMBDA x : x \in set)

seq_range(seq) == {seq[i] : i \in 1..Len(seq)}

\* a mutant of has_star: only the full wildcard counts
has_star_full_only(accept) == accept = "*/*"

\* '*' in accept
has_star(accept) == accept \in {"*/*", "text/*"}

\* MultiView.add(view, score, accept)
mv_add(mv, view, score, accept, order) ==
    IF accept = None \/ has_star(accept)
    THEN [mv EXCEPT !.views = list_sort(Append(mv.views, <<score, view>>))]
    ELSE LET subset == IF accept \in DOMAIN mv.media_views
                       THEN mv.media_views[accept] ELSE <<>>
             sorted == list_sort(Append(subset, <<score, view>>))
         IN  [mv EXCEPT !.media_views =
                            [a \in DOMAIN mv.media_views \cup {accept} |->
                                IF a = accept THEN sorted ELSE mv.media_views[a]],
                        !.accepts = list_of_set(seq_range(mv.accepts) \cup {accept},
                                                order)]

\* list.remove(x)
list_remove(list, x) == SelectSeq(list, LAMBDA y : y # x)

\* the while loop of MultiView.get_views
RECURSIVE media_loop(_, _, _)
media_loop(mv, request, accepts) ==
    IF accepts = <<>> THEN <<>>
    ELSE LET match == best_match(request.accept, accepts)
         IN  IF match = None THEN <<>>
             ELSE mv.media_views[match] \o media_loop(mv, request, list_remove(accepts, match))

\* a mutant of get_views: only the best matching pool is taken
get_views_first_only(mv, request) ==
    IF mv.accepts # <<>> /\ request.has_accept
    THEN LET match == best_match(request.accept, mv.accepts)
         IN  (IF match = None THEN <<>> ELSE mv.media_views[match]) \o mv.views
    ELSE mv.views

\* a mutant of get_views: the generic pool comes first
get_views_generic_first(mv, request) ==
    IF mv.accepts # <<>> /\ request.has_accept
    THEN mv.views \o media_loop(mv, request, mv.accepts)
    ELSE mv.views

\* MultiView.get_views(request)
get_views(mv, request) ==
    IF mv.accepts # <<>> /\ request.has_accept
    THEN media_loop(mv, request, mv.accepts) \o mv.views
    ELSE mv.views

(***************************************************************************)
(* Registry                                                                *)
(***************************************************************************)

\* the context types a view is registered for (for_): Interface is for_=None
ForTypes == {"Interface", "IFoo"}
\* route_request_iface(route_name): the request interface of a route
route_request_iface(route_name) == IF route_name = "r" THEN "r_IRequest" ELSE "IRequest"

RequestTypes == {"IRequest", "r_IRequest"}
ViewNames == {"", "w"}

Keys == ForTypes \X RequestTypes \X ViewNames

\* what a registration provides; ISecuredView extends IView and IMultiView
\* extends ISecuredView, so a lookup of IView finds all three
ViewIfaces == <<"IView", "ISecuredView", "IMultiView">>

NoObject == [t |-> "none"]
ViewObject(view) == [t |-> "view", view |-> view]
MultiViewObject(ref) == [t |-> "multiview", ref |-> ref]

EmptyRegistry ==
    [k \in Keys |-> [i \in seq_range(ViewIfaces) |-> NoObject]]

\* the keys a lookup for (for_, request_type) visits, most specific first
lookup_keys(for, request_type, name) ==
    LET f == sro(for)
        r == sro(request_type)
        all == [n \in 1..(Len(f) * Len(r)) |->
                   <<f[((n - 1) \div Len(r)) + 1], r[((n - 1) % Len(r)) + 1], name>>]
    IN  SelectSeq(all, LAMBDA k : k \in Keys)

\* what is registered under one key for IView or an interface extending it
registered(reg, key) ==
    LET filled == {i \in 1..Len(ViewIfaces) : reg[key][ViewIfaces[i]] # NoObject}
    IN  IF filled = {} THEN NoObject
        ELSE reg[key][ViewIfaces[CHOOSE i \in filled : \A j \in filled : i <= j]]

\* registry.adapters.lookup((for_, request_type), IView, name=name): the
\* registration of the most specific key that has one
lookup(reg, for, request_type, name) ==
    LET keys == lookup_keys(for, request_type, name)
        found == {i \in 1..Len(keys) : registered(reg, keys[i]) # NoObject}
    IN  IF found = {} THEN NoObject
        ELSE registered(reg, keys[CHOOSE i \in found : \A j \in found : i <= j])

\* registry.registerAdapter(object, (for_, request_type), iface, name)
registerAdapter(reg, object, key, iface) == [reg EXCEPT ![key][iface] = object]

\* registry.adapters.unregister((for_, request_type), iface, name=name)
unregister(reg, key, iface) == [reg EXCEPT ![key][iface] = NoObject]

(***************************************************************************)
(* Calling a derived view                                                  *)
(***************************************************************************)

\* authn_policy.effective_principals(request)
effective_principals(request) == request.principals \cup {"Everyone"}

\* authz_policy.permits(context, principals, permission), from the context's ACL
permits(context, principals, permission) ==
    \E p \in principals : <<p, permission>> \in context.acl

\* how many predicates of the list all(...) evaluates: up to and including the
\* first that is false or raises
n_evaluated(predicates, context, request) ==
    LET stop == {i \in 1..Len(predicates) :
                    \/ predicate_raises(predicates[i], context, request)
                    \/ ~eval_predicate(predicates[i], context, request)}
    IN  IF stop = {} THEN Len(predicates)
        ELSE CHOOSE i \in stop : \A j \in stop : i <= j

\* a mutant of all_predicates: every predicate is evaluated before the
\* answers are looked at
all_predicates_eager(predicates, context, request) ==
    IF \E i \in 1..Len(predicates) : predicate_raises(predicates[i], context, request)
    THEN "raise"
    ELSE IF \A i \in 1..Len(predicates) : eval_predicate(predicates[i], context, request)
    THEN "true"
    ELSE "false"

\* all((predicate(context, request) for predicate in predicates)):
\* "true", "false", or "raise" when the predicate it stops at raises
all_predicates(predicates, context, request) ==
    LET n == n_evaluated(predicates, context, request)
    IN  IF n = 0 THEN "true"
        ELSE IF predicate_raises(predicates[n], context, request) THEN "raise"
        ELSE IF eval_predicate(predicates[n], context, request) THEN "true"
        ELSE "false"

Event(what, id) == <<what, id>>

Outcome(kind, by, msg, trace) == [kind |-> kind, by |-> by, msg |-> msg, trace |-> trace]

\* the mapped view called with (context, request): the wrapper of _map_view
\* passes the raw view what it takes, a class is instantiated and the
\* instance called; a result that is not a response is rendered when there
\* is a renderer
call_raw(view, trace) ==
    LET enter == CASE view.mapped = "class_requestonly" ->
                        <<Event("new(request)", view.id), Event("inst()", view.id)>>
                   [] view.mapped = "class" ->
                        <<Event("new(context, request)", view.id),
                          Event("inst()", view.id)>>
                   [] view.mapped = "instance" -> <<Event("inst()", view.id)>>
                   [] view.mapped = "requestonly" -> <<Event("view(request)", view.id)>>
                   [] OTHER -> <<Event("view(context, request)", view.id)>>
        t == Append(trace \o enter, Event("view", view.id))
    IN  CASE view.behaviour = "ok" -> Outcome("response", view.id, None, t)
          [] view.behaviour = "dict" ->
                IF view.renderer # None
                THEN Outcome("response", view.id, view.renderer,
                             Append(t, Event("render", view.id)))
                ELSE Outcome("value", view.id, None, t)
          [] view.behaviour = "NotFound" -> Outcome("NotFound", 0, "raised by the view", t)
          [] OTHER -> Outcome("Error", 0, "raised by the view", t)

\* the instances of view classes a call created, in the order of creation
created(trace) ==
    LET news == SelectSeq(trace, LAMBDA e :
                    e[1] \in {"new(request)", "new(context, request)"})
    IN  [n \in 1..Len(news) |-> [cls |-> news[n][2], args |-> news[n][1]]]

\* A call runs through the layers of a derived view from the outermost in;
\* a layer either ends the call or calls the layer under it, and
\* _owrapped_view and MultiView.__call__ take the call up again when the
\* view they called has ended. A step says which of the two a layer does;
\* a frame is a function that waits for the end of the view it called.

\* the layer calls layer n of view (layer 0 is the mapped view); msg is
\* request.authdebug_message when a layer has set it
Go(push, view, n, msg, trace) ==
    [do |-> "call", push |-> push, view |-> view, n |-> n, msg |-> msg, trace |-> trace]

\* the layer returns or raises
Done(outcome) == [do |-> "return", outcome |-> outcome]

\* MultiView.__call__(context, request) from candidate i on
multiview_next(candidates, i, trace) ==
    IF i > Len(candidates) THEN Done(Outcome("NotFound", 0, "multiview", trace))
    ELSE Go(<<[kind |-> "multiview", candidates |-> candidates, i |-> i]>>,
            candidates[i][2], Len(candidates[i][2].layers), None, trace)

\* MultiView.__call__ after candidate frame.i has ended
multiview_after(frame, o) ==
    IF o.kind = "NotFound" THEN multiview_next(frame.candidates, frame.i + 1, o.trace)
    ELSE Done(o)

\* render_view_to_response(context, request, name): the view registered for
\* (context, request) under the name is called; None when there is none
render_view_to_response(context, request, name, trace) ==
    LET render(found) ==
            IF found = NoObject THEN Done(Outcome("None", 0, None, trace))
            ELSE IF found.t = "multiview"
            THEN multiview_next(get_views(multiviews[found.ref], request), 1, trace)
            ELSE Go(<<>>, found.view, Len(found.view.layers), None, trace)
    IN  render(lookup(registry, context.iface, request.type, name))

\* _owrap_view._owrapped_view(context, request): the view is called first
call_owrapped(view, n, context, request, msg, trace) ==
    Go(<<[kind |-> "owrapped", view |-> view]>>, view, n - 1, msg, trace)

\* a mutant of owrapped_after: a wrapper view that is not found is NotFound
owrapped_after_notfound(view, o, context, request) ==
    IF o.kind = "value"
    THEN Done(Outcome("AttributeError", 0, "response.body", o.trace))
    ELSE IF o.kind # "response" THEN Done(o)
    ELSE LET found(w) ==
                 IF w.do = "return" /\ w.outcome.kind = "None"
                 THEN Done(Outcome("NotFound", 0, "No wrapper view found",
                                   w.outcome.trace))
                 ELSE w
         IN  found(render_view_to_response(context, request, view.wrapper,
                                           Append(o.trace, Event("wrapper", view.id))))

\* _owrapped_view after the view has ended: the wrapper view is looked up
\* by name and called
owrapped_after(view, o, context, request) ==
    IF o.kind = "value"
    THEN Done(Outcome("AttributeError", 0, "response.body", o.trace))
    ELSE IF o.kind # "response" THEN Done(o)
    ELSE LET found(w) ==
                 IF w.do = "return" /\ w.outcome.kind = "None"
                 THEN Done(Outcome("ValueError", 0, "No wrapper view found",
                                   w.outcome.trace))
                 ELSE w
         IN  found(render_view_to_response(context, request, view.wrapper,
                                           Append(o.trace, Event("wrapper", view.id))))

\* _secure_view._secured_view(context, request)
call_secured(view, n, context, request, msg, trace) ==
    LET t == Append(trace, Event("permits", view.id))
    IN  IF permits(context, effective_principals(request), view.permission)
        THEN Go(<<>>, view, n - 1, msg, t)
        ELSE Done(Outcome("Forbidden", 0,
                          IF msg # None THEN msg ELSE "failed permission check", t))

\* a mutant of call_authdebug: a permission without policies to check it
\* is refused
call_authdebug_refuses(view, n, context, request, trace) ==
    LET msg == IF view.debug_policies
               THEN IF view.permission = None
                    THEN "Allowed (no permission registered)"
                    ELSE IF permits(context, effective_principals(request),
                                    view.permission)
                         THEN "True" ELSE "False"
               ELSE "Allowed (no authorization policy in use)"
        t == Append(trace, Event("authdebug", view.id))
    IN  IF ~view.debug_policies /\ view.permission # None
        THEN Done(Outcome("Forbidden", 0, msg, t))
        ELSE Go(<<>>, view, n - 1, msg, t)

\* _authdebug_view._authdebug_view(context, request)
call_authdebug(view, n, context, request, trace) ==
    LET msg == IF view.debug_policies
               THEN IF view.permission = None
                    THEN "Allowed (no permission registered)"
                    ELSE IF permits(context, effective_principals(request),
                                    view.permission)
                         THEN "True" ELSE "False"
               ELSE "Allowed (no authorization policy in use)"
    IN  Go(<<>>, view, n - 1, msg, Append(trace, Event("authdebug", view.id)))

\* a mutant of call_predicated: the view is called whatever the predicates say
call_predicated_open(view, n, context, request, msg, trace) ==
    Go(<<>>, view, n - 1, msg, Append(trace, Event("predicates", view.id)))

\* _predicate_wrap.predicate_wrapper(context, request)
call_predicated(view, n, context, request, msg, trace) ==
    LET t == Append(trace, Event("predicates", view.id))
        a == all_predicates(view.predicates, context, request)
    IN  CASE a = "true" -> Go(<<>>, view, n - 1, msg, t)
          [] a = "false" -> Done(Outcome("NotFound", 0, "predicate mismatch", t))
          [] OTHER -> Done(Outcome("TypeError", 0, "predicate raised", t))

\* what layer n of the view does when called
layer_step(view, n, context, request, msg, trace) ==
    IF n = 0 THEN Done(call_raw(view, trace))
    ELSE CASE view.layers[n] = "owrap" ->
                call_owrapped(view, n, context, request, msg, trace)
           [] view.layers[n] = "secured" ->
                call_secured(view, n, context, request, msg, trace)
           [] view.layers[n] = "authdebug" ->
                call_authdebug(view, n, context, request, trace)
           [] view.layers[n] = "predicated" ->
                call_predicated(view, n, context, request, msg, trace)
           [] OTHER -> Go(<<>>, view, n - 1, msg, trace)

\* the call stack: the frames that wait, innermost last, and the step to take
RECURSIVE call_stack(_, _, _, _)
call_stack(stack, step, context, request) ==
    IF step.do = "call"
    THEN call_stack(stack \o step.push,
                    layer_step(step.view, step.n, context, request, step.msg, step.trace),
                    context, request)
    ELSE IF stack = <<>> THEN step.outcome
    ELSE LET frame == stack[Len(stack)]
         IN  call_stack(SubSeq(stack, 1, Len(stack) - 1),
                        IF frame.kind = "owrapped"
                        THEN owrapped_after(frame.view, step.outcome, context, request)
                        ELSE multiview_after(frame, step.outcome),
                        context, request)

\* layer n of a derived view called with (context, request)
call_layer(view, n, context, request, msg, trace) ==
    call_stack(<<>>, Go(<<>>, view, n, msg, trace), context, request)

\* the derived view called with (context, request), from its outermost
\* layer in (_accept_wrap.accept_view only passes the call on)
call_view(view, context, request) ==
    call_layer(view, Len(view.layers), context, request, None, <<>>)

\* view.__call_permissive__(context, request): the view _secure_view wrapped
call_permissive(view, context, request) ==
    LET n == CHOOSE k \in 1..Len(view.layers) : view.layers[k] = "secured"
    IN  call_layer(view, n - 1, context, request, None, <<>>)

\* view.__predicated__(context, request): _predicate_wrap.checker
predicated_checker(view, context, request) ==
    all_predicates(view.predicates, context, request)

\* view.__permitted__(context, request): _secure_view._permitted
permitted_checker(view, context, request) ==
    permits(context, effective_principals(request), view.permission)

(***************************************************************************)
(* MultiView: match and call                                               *)
(***************************************************************************)

\* what the mutant mv_match_by_call does: the candidates called in order
\* until one answers, and which one did
call_loop_for_match(candidates, context, request) ==
    LET outs == [i \in 1..Len(candidates) |->
                    call_view(candidates[i][2], context, request)]
        hit == {i \in 1..Len(candidates) : outs[i].kind # "NotFound"}
        at == IF hit = {} THEN 0 ELSE CHOOSE i \in hit : \A j \in hit : i <= j
    IN  IF at = 0 THEN [kind |-> "NotFound", at |-> 0, trace |-> <<>>]
        ELSE [kind |-> outs[at].kind, at |-> at, trace |-> outs[at].trace]

NoView == [id |-> 0]

\* the candidates MultiView.match passes over before it returns: those that
\* have __predicated__ and whose check is not true
match_stop(candidates, context, request) ==
    LET hit == {i \in 1..Len(candidates) :
                   \/ ~candidates[i][2].attrs.predicated
                   \/ predicated_checker(candidates[i][2], context, request) # "false"}
    IN  IF hit = {} THEN 0 ELSE CHOOSE i \in hit : \A j \in hit : i <= j

\* the __predicated__ calls MultiView.match makes on the first n candidates
match_trace(candidates, n) ==
    LET checked == SelectSeq([i \in 1..n |-> candidates[i][2]],
                             LAMBDA v : v.attrs.predicated)
    IN  [i \in 1..Len(checked) |-> Event("predicated", checked[i].id)]

\* a mutant of mv_match: the first candidate is returned unchecked
mv_match_first(mv, context, request) ==
    LET candidates == get_views(mv, request)
    IN  IF candidates = <<>>
        THEN [kind |-> "NotFound", view |-> NoView, trace |-> <<>>]
        ELSE [kind |-> "view", view |-> candidates[1][2], trace |-> <<>>]

\* a mutant of mv_match: the candidates are tried by calling them
mv_match_by_call(mv, context, request) ==
    LET candidates == get_views(mv, request)
        o == call_loop_for_match(candidates, context, request)
    IN  IF o.kind = "response"
        THEN [kind |-> "view", view |-> candidates[o.at][2], trace |-> o.trace]
        ELSE [kind |-> o.kind, view |-> NoView, trace |-> o.trace]

\* MultiView.match(context, request): the view, or NotFound, or the
\* exception a predicate raised; trace is what it called on the way
mv_match(mv, context, request) ==
    LET stopped(candidates, i) ==
            IF i = 0
            THEN [kind |-> "NotFound", view |-> NoView,
                  trace |-> match_trace(candidates, Len(candidates))]
            ELSE IF candidates[i][2].attrs.predicated
                    /\ predicated_checker(candidates[i][2], context, request) = "raise"
            THEN [kind |-> "TypeError", view |-> NoView,
                  trace |-> match_trace(candidates, i)]
            ELSE [kind |-> "view", view |-> candidates[i][2],
                  trace |-> match_trace(candidates, i)]
        over(candidates) == stopped(candidates, match_stop(candidates, context, request))
    IN  over(get_views(mv, request))

\* a mutant of call_loop: NotFound from a candidate ends the loop
call_loop_no_continue(candidates, i, context, request, trace) ==
    IF i > Len(candidates) THEN Outcome("NotFound", 0, "multiview", trace)
    ELSE LET o == call_view(candidates[i][2], context, request)
         IN  [o EXCEPT !.trace = trace \o o.trace]

\* a mutant of call_loop: every exception of a candidate is passed over
RECURSIVE call_loop_catch_all(_, _, _, _, _)
call_loop_catch_all(candidates, i, context, request, trace) ==
    IF i > Len(candidates) THEN Outcome("NotFound", 0, "multiview", trace)
    ELSE LET o == call_view(candidates[i][2], context, request)
         IN  IF o.kind # "response"
             THEN call_loop_catch_all(candidates, i + 1, context, request,
                                      trace \o o.trace)
             ELSE [o EXCEPT !.trace = trace \o o.trace]

\* the for loop of MultiView.__call__ from candidate i on
RECURSIVE call_loop(_, _, _, _, _)
call_loop(candidates, i, context, request, trace) ==
    IF i > Len(candidates) THEN Outcome("NotFound", 0, "multiview", trace)
    ELSE LET after(o) ==
                 IF o.kind = "NotFound"
                 THEN call_loop(candidates, i + 1, context, request, trace \o o.trace)
                 ELSE [o EXCEPT !.trace = trace \o o.trace]
         IN  after(call_view(candidates[i][2], context, request))

\* MultiView.__call__(context, request)
mv_call(mv, context, request) ==
    call_loop(get_views(mv, request), 1, context, request, <<>>)

\* MultiView.__permitted__(context, request): the answer of the view match
\* selects when it has __permitted__, True when it has not; the exception
\* match raises
mv_permitted(mv, context, request) ==
    LET permitted(m) ==
            IF m.kind # "view" THEN [kind |-> m.kind, value |-> FALSE]
            ELSE [kind |-> "value",
                  value |-> IF m.view.attrs.permitted
                            THEN permitted_checker(m.view, context, request)
                            ELSE TRUE]
    IN  permitted(mv_match(mv, context, request))

\* MultiView.__call_permissive__(context, request): the __call_permissive__
\* of the view match selects (the view _secure_view wrapped), or the view
\* itself when it has none, called with (context, request)
mv_call_permissive(mv, context, request) ==
    LET permissive(m) ==
            IF m.kind # "view" THEN Outcome(m.kind, 0, "multiview", <<>>)
            ELSE IF m.view.attrs.call_permissive
            THEN call_permissive(m.view, context, request)
            ELSE call_view(m.view, context, request)
    IN  permissive(mv_match(mv, context, request))

(***************************************************************************)
(* Configurator.setup_registry                                             *)
(***************************************************************************)

\* a mutant of _set_security_policies: authorization without authentication
\* is let through
_set_security_policies_unchecked(authentication, authorization) ==
    [raised |-> None, authn_policy |-> authentication, authz_policy |-> TRUE]

\* Configurator._set_security_policies(authentication, authorization): the
\* arguments say whether a policy is passed; no authorization policy means
\* the default ACLAuthorizationPolicy
_set_security_policies(authentication, authorization) ==
    LET authorization1 == IF ~authorization THEN TRUE ELSE authorization
    IN  IF authorization1 /\ ~authentication
        THEN [raised |-> "ConfigurationError", authn_policy |-> FALSE,
              authz_policy |-> FALSE]
        ELSE [raised |-> None, authn_policy |-> authentication,
              authz_policy |-> authorization1]

\* Configurator(settings=..., authentication_policy=..., authorization_policy=...)
\* without a registry: setup_registry registers the settings and, when a
\* policy is passed, the security policies
SetupRegistry(debug, authentication_policy, authorization_policy) ==
    /\ last.op = "new"
    /\ debug_authorization' = debug
    /\ LET p == IF authentication_policy \/ authorization_policy
                THEN _set_security_policies(authentication_policy,
                                            authorization_policy)
                ELSE [raised |-> None, authn_policy |-> FALSE, authz_policy |-> FALSE]
       IN  /\ authn_policy' = p.authn_policy
           /\ authz_policy' = p.authz_policy
           /\ last' = [op |-> "setup_registry", raised |-> p.raised,
                       args |-> [authentication_policy |-> authentication_policy,
                                 authorization_policy |-> authorization_policy]]
    /\ UNCHANGED <<registry, multiviews, views, hash_order, score_in, score_out,
                   instances, route_requests, threads,
                   lock, manager>>

(***************************************************************************)
(* Configurator.add_view                                                   *)
(***************************************************************************)

\* the score add_view gives the view it finds already registered when it
\* makes a MultiView of it
old_view_score(old_view) == MaxInt

\* the registration part of add_view: what the registry and the MultiView
\* objects are after derived_view is registered under key
register_view(reg, mvs, key, derived_view, score, accept, order) ==
    LET old_view == lookup(reg, key[1], key[2], key[3])
    IN  IF old_view = NoObject
        THEN [registry |-> registerAdapter(reg, ViewObject(derived_view), key,
                               IF derived_view.attrs.call_permissive
                               THEN "ISecuredView" ELSE "IView"),
              multiviews |-> mvs]
        ELSE LET fresh == old_view.t # "multiview"
                 ref == IF fresh THEN Len(mvs) + 1 ELSE old_view.ref
                 mvs1 == IF fresh
                         THEN Append(mvs, mv_add(MultiView(key[3]), old_view.view,
                                                 old_view_score(old_view.view),
                                                 old_view.view.attrs.accept, order))
                         ELSE mvs
                 mvs2 == [mvs1 EXCEPT ![ref] = mv_add(@, derived_view, score, accept, order)]
                 reg1 == unregister(unregister(reg, key, "IView"), key, "ISecuredView")
             IN  [registry |-> registerAdapter(reg1, MultiViewObject(ref), key, "IMultiView"),
                  multiviews |-> mvs2]

\* every option of add_view absent
NoOptions == [xhr |-> FALSE, request_method |-> None, path_info |-> None,
              request_param |-> None, header |-> None, accept |-> None,
              containment |-> None, request_type |-> None, route_name |-> None,
              renderer |-> None, wrapper |-> None]

\* no call is under way: the last one has returned, and there is a Configurator
Idle ==
    \/ last.op \in {"init", "add_view", "idle", "set_policy"}
    \/ last.op = "setup_registry" /\ last.raised = None

\* Configurator._set_authentication_policy(policy)
SetAuthenticationPolicy ==
    /\ Idle
    /\ authn_policy' = TRUE
    /\ last' = [op |-> "set_policy"]
    /\ UNCHANGED <<registry, multiviews, views, authz_policy, debug_authorization,
                   hash_order, score_in, score_out, instances, route_requests, threads,
                   lock, manager>>

\* Configurator._set_authorization_policy(policy)
SetAuthorizationPolicy ==
    /\ Idle
    /\ authz_policy' = TRUE
    /\ last' = [op |-> "set_policy"]
    /\ UNCHANGED <<registry, multiviews, views, authn_policy, debug_authorization,
                   hash_order, score_in, score_out, instances, route_requests, threads,
                   lock, manager>>

UsedAddrs == {views[i].view.addr : i \in 1..Len(views)}

\* request_type values add_view takes for a request_method (b/w compat)
Methods == {"GET", "HEAD", "PUT", "POST", "DELETE"}

\* the view add_view makes up when it is given a renderer and no view:
\* def view(context, request): return {}
DefaultView == ViewFunction("dict")

\* a mutant of add_view_conflict: the arguments are not checked
add_view_conflict_unchecked(o, view) == FALSE

\* add_view raises ConfigurationError before it does anything: neither view
\* nor renderer, or a request_type that is not a request method name
\* together with a route_name
add_view_conflict(o, view) ==
    \/ view = NoRawView /\ o.renderer = None
    \/ /\ (IF o.request_type \in Methods THEN None ELSE o.request_type) # None
       /\ o.route_name # None

\* what add_view leaves behind when it raises
Raised(exception, routes) ==
    [raised |-> exception, registry |-> registry, multiviews |-> multiviews,
     route_requests |-> routes, views |-> views]

\* Configurator.add_view(view, name, for_, permission, request_type,
\* route_name, request_method, xhr, accept, renderer, ...): the exception it
\* raises, or None, and what it leaves behind; addr is where the derived
\* function object is allocated
add_view(for, name, o, permission, view, addr) ==
    LET view1 == IF view = NoRawView THEN DefaultView ELSE view
        compat == o.request_type \in Methods
        request_method == IF compat THEN o.request_type ELSE o.request_method
        request_type1 == IF compat THEN None ELSE o.request_type
        request_type == IF o.route_name # None THEN route_request_iface(o.route_name)
                        ELSE IF request_type1 = None THEN "IRequest"
                        ELSE request_type1
        routes == IF o.route_name # None THEN route_requests \cup {o.route_name}
                  ELSE route_requests
        mp == _make_predicates([o EXCEPT !.request_method = request_method])
        key == <<for, request_type, name>>
        derived_view == _derive_view(Len(views) + 1, addr, view1, permission,
                                     mp.predicates, o.renderer, o.wrapper, name,
                                     o.accept, authn_policy, authz_policy,
                                     debug_authorization)
        r == register_view(registry, multiviews, key, derived_view,
                           mp.score, o.accept, hash_order)
    IN  IF add_view_conflict(o, view)
        THEN Raised("ConfigurationError", route_requests)
        ELSE IF mp.raised # None THEN Raised(mp.raised, routes)
        ELSE IF renderer_raises(o.renderer) THEN Raised("ValueError", routes)
        ELSE IF requestonly_raises(view1) THEN Raised("TypeError", routes)
        ELSE [raised |-> None, registry |-> r.registry, multiviews |-> r.multiviews,
              route_requests |-> routes,
              views |-> Append(views, [key |-> key, options |-> o,
                                       raw |-> view1,
                                       authn |-> authn_policy,
                                       authz |-> authz_policy,
                                       permission |-> permission,
                                       npredicates |-> Len(mp.predicates),
                                       score |-> mp.score,
                                       view |-> derived_view])]

\* a call of Configurator.add_view
AddView(for, name, o, permission, view, addr) ==
    /\ Idle
    /\ Len(views) < MaxViews
    /\ addr \notin UsedAddrs
    /\ \E a \in {add_view(for, name, o, permission, view, addr)} :
           /\ registry' = a.registry
           /\ multiviews' = a.multiviews
           /\ route_requests' = a.route_requests
           /\ views' = a.views
           /\ last' = [op |-> "add_view", raised |-> a.raised,
                       args |-> [for |-> for, name |-> name, o |-> o,
                                 permission |-> permission, view |-> view],
                       before |-> [registry |-> registry, multiviews |-> multiviews,
                                   route_requests |-> route_requests,
                                   nviews |-> Len(views)]]
    /\ UNCHANGED <<authn_policy, authz_policy, debug_authorization, hash_order,
                   score_in, score_out, instances, threads,
                   lock, manager>>

(***************************************************************************)
(* Requests                                                                *)
(***************************************************************************)

NoAccept == [m \in MimeTypes |-> 0]

Request(method, is_xhr, has_accept, accept, principals) ==
    [type |-> "IRequest", method |-> method, is_xhr |-> is_xhr,
     has_accept |-> has_accept, accept |-> accept, path_info |-> "/a",
     params |-> <<>>, headers |-> <<>>, principals |-> principals]

Context(iface) ==
    [iface |-> iface, lineage |-> {iface}, acl |-> {<<"editor", "edit">>}]

\* MultiView.get_views(request) on the MultiView found for (context, request, name)
GetViews(context, request, name) ==
    \E found \in {lookup(registry, context.iface, request.type, name)} :
        /\ Idle
        /\ found.t = "multiview"
        /\ last' = [op |-> "get_views", context |-> context, request |-> request,
                    ref |-> found.ref,
                    candidates |-> get_views(multiviews[found.ref], request)]
        /\ UNCHANGED <<registry, multiviews, views, authn_policy, authz_policy,
                       debug_authorization, hash_order, score_in, score_out,
                       instances, route_requests, threads,
                   lock, manager>>

\* MultiView.match(context, request) on the MultiView found for (context, request, name)
Match(context, request, name) ==
    \E found \in {lookup(registry, context.iface, request.type, name)} :
        /\ Idle
        /\ found.t = "multiview"
        /\ last' = [op |-> "match", context |-> context, request |-> request,
                    ref |-> found.ref,
                    result |-> mv_match(multiviews[found.ref], context, request)]
        /\ UNCHANGED <<registry, multiviews, views, authn_policy, authz_policy,
                       debug_authorization, hash_order, score_in, score_out,
                       instances, route_requests, threads,
                   lock, manager>>

\* the view found for (context, request, name) called: a MultiView through
\* MultiView.__call__, a single view directly
Call(context, request, name) ==
    \E found \in {lookup(registry, context.iface, request.type, name)} :
        /\ Idle
        /\ found # NoObject
        /\ \E outcome \in {IF found.t = "multiview"
                            THEN mv_call(multiviews[found.ref], context, request)
                            ELSE call_view(found.view, context, request)} :
              /\ Len(instances) + Len(created(outcome.trace)) <= MaxInstances
              /\ instances' = instances \o created(outcome.trace)
              /\ last' = [op |-> "call", context |-> context, request |-> request,
                          found |-> found, outcome |-> outcome]
        /\ UNCHANGED <<registry, multiviews, views, authn_policy, authz_policy,
                       debug_authorization, hash_order, score_in, score_out,
                       route_requests, threads,
                   lock, manager>>

\* the derived view that the i-th add_view call made, called with
\* (context, request)
CallView(i, context, request) ==
    /\ Idle
    /\ i \in 1..Len(views)
    /\ \E outcome \in {call_view(views[i].view, context, request)} :
           /\ Len(instances) + Len(created(outcome.trace)) <= MaxInstances
           /\ instances' = instances \o created(outcome.trace)
           /\ last' = [op |-> "call_view", context |-> context,
                       request |-> request, id |-> i, outcome |-> outcome,
                       instances_before |-> Len(instances)]
    /\ UNCHANGED <<registry, multiviews, views, authn_policy, authz_policy,
                   debug_authorization, hash_order, score_in, score_out,
                   route_requests, threads,
                   lock, manager>>

\* a call of the function _map_view makes of view and the renderer, where
\* the view returns an object with the attributes attrs and overrides are
\* the response_ attributes set on the request
CallMapped(view, renderer_name, attrs, overrides) ==
    /\ Idle
    /\ ~requestonly_raises(view)
    /\ ~renderer_raises(renderer_name)
    /\ \E request \in {[a \in ResponseOverrides |->
                           IF a \in overrides THEN "set" ELSE None]} :
          last' = [op |-> "call_mapped", view |-> view, renderer |-> renderer_name,
                   result |-> Result(attrs), request |-> request,
                   response |-> mapped_response(
                                   _map_view(1, 1, view, _renderer_from_name(renderer_name)),
                                   Result(attrs), request)]
    /\ UNCHANGED <<registry, multiviews, views, authn_policy, authz_policy,
                   debug_authorization, hash_order, score_in, score_out,
                   instances, route_requests, threads,
                   lock, manager>>

\* MultiView.__permitted__(context, request) on the MultiView found for
\* (context, request, name)
Permitted(context, request, name) ==
    \E found \in {lookup(registry, context.iface, request.type, name)} :
        /\ Idle
        /\ found.t = "multiview"
        /\ last' = [op |-> "permitted", context |-> context, request |-> request,
                    ref |-> found.ref,
                    result |-> mv_permitted(multiviews[found.ref], context, request)]
        /\ UNCHANGED <<registry, multiviews, views, authn_policy, authz_policy,
                       debug_authorization, hash_order, score_in, score_out,
                       instances, route_requests, threads,
                   lock, manager>>

\* MultiView.__call_permissive__(context, request) on the MultiView found for
\* (context, request, name)
CallPermissive(context, request, name) ==
    \E found \in {lookup(registry, context.iface, request.type, name)} :
        /\ Idle
        /\ found.t = "multiview"
        /\ \E outcome \in {mv_call_permissive(multiviews[found.ref], context, request)} :
              /\ Len(instances) + Len(created(outcome.trace)) <= MaxInstances
              /\ instances' = instances \o created(outcome.trace)
              /\ last' = [op |-> "call_permissive", context |-> context,
                          request |-> request, ref |-> found.ref, outcome |-> outcome]
        /\ UNCHANGED <<registry, multiviews, views, authn_policy, authz_policy,
                       debug_authorization, hash_order, score_in, score_out,
                       route_requests, threads,
                   lock, manager>>

\* the call returns to its caller
Return ==
    /\ ~Idle
    /\ last' = [op |-> "idle"]
    /\ UNCHANGED <<registry, multiviews, views, authn_policy, authz_policy,
                   debug_authorization, hash_order, score_in, score_out,
                       instances, route_requests, threads,
                   lock, manager>>

(***************************************************************************)
(* MultiView.get_views, statement by statement, in concurrent threads      *)
(***************************************************************************)

Threads == 1..MaxThreads

IdleThread == [pc |-> "idle"]

NoThreads == [t \in Threads |-> IdleThread]

AllIdle == \A t \in Threads : threads[t].pc = "idle"

\* a mutant of gv_step: accepts is self.accepts itself, not a copy of it
gv_step_shared(mv, th) ==
    LET match == IF mv.accepts = <<>> THEN None
                 ELSE best_match(th.request.accept, mv.accepts)
    IN  IF match = None
        THEN [mv |-> mv, th |-> [th EXCEPT !.pc = "extend"]]
        ELSE [mv |-> [mv EXCEPT !.accepts = list_remove(@, match)],
              th |-> [th EXCEPT !.views = @ \o mv.media_views[match],
                                !.accepts = list_remove(mv.accepts, match)]]

\* a mutant of gv_step: the first accept is removed, not the match
gv_step_pop_first(mv, th) ==
    LET match == IF th.accepts = <<>> THEN None
                 ELSE best_match(th.request.accept, th.accepts)
    IN  IF match = None
        THEN [mv |-> mv, th |-> [th EXCEPT !.pc = "extend"]]
        ELSE [mv |-> mv,
              th |-> [th EXCEPT !.views = @ \o mv.media_views[match],
                                !.accepts = Tail(@)]]

\* one pass of the while loop of get_views: the test of accepts, best_match,
\* the break, views.extend(subset) and accepts.remove(match); accepts is the
\* thread's own copy, so the MultiView is left as it is
gv_step(mv, th) ==
    LET match == IF th.accepts = <<>> THEN None
                 ELSE best_match(th.request.accept, th.accepts)
    IN  IF match = None
        THEN [mv |-> mv, th |-> [th EXCEPT !.pc = "extend"]]
        ELSE [mv |-> mv,
              th |-> [th EXCEPT !.views = @ \o mv.media_views[match],
                                !.accepts = list_remove(@, match)]]

\* a thread enters get_views: the if, accepts = self.accepts[:] and
\* views = [], or return self.views
GVStart(t, context, request, name) ==
    LET found == lookup(registry, context.iface, request.type, name)
    IN  /\ threads[t].pc = "idle"
        /\ found.t = "multiview"
        /\ LET mv == multiviews[found.ref]
           IN  threads' = [threads EXCEPT ![t] =
                   IF mv.accepts # <<>> /\ request.has_accept
                   THEN [pc |-> "loop", ref |-> found.ref, request |-> request,
                         mv0 |-> mv, accepts |-> mv.accepts, views |-> <<>>]
                   ELSE [pc |-> "done", ref |-> found.ref, request |-> request,
                         mv0 |-> mv, accepts |-> <<>>, views |-> mv.views]]
        /\ UNCHANGED <<registry, multiviews, views, authn_policy, authz_policy,
                       debug_authorization, hash_order, last, score_in, score_out,
                       instances, route_requests,
                   lock, manager>>

\* a thread makes one pass of the while loop
GVStep(t) ==
    /\ threads[t].pc = "loop"
    /\ LET s == gv_step(multiviews[threads[t].ref], threads[t])
       IN  /\ multiviews' = [multiviews EXCEPT ![threads[t].ref] = s.mv]
           /\ threads' = [threads EXCEPT ![t] = s.th]
    /\ UNCHANGED <<registry, views, authn_policy, authz_policy,
                   debug_authorization, hash_order, last, score_in, score_out,
                   instances, route_requests,
                   lock, manager>>

\* views.extend(self.views); return views
GVFinish(t) ==
    /\ threads[t].pc = "extend"
    /\ threads' = [threads EXCEPT ![t].pc = "done",
                                  ![t].views = @ \o multiviews[threads[t].ref].views]
    /\ UNCHANGED <<registry, multiviews, views, authn_policy, authz_policy,
                   debug_authorization, hash_order, last, score_in, score_out,
                   instances, route_requests,
                   lock, manager>>

\* the caller of get_views is done with the list
GVReturn(t) ==
    /\ threads[t].pc = "done"
    /\ threads' = [threads EXCEPT ![t] = IdleThread]
    /\ UNCHANGED <<registry, multiviews, views, authn_policy, authz_policy,
                   debug_authorization, hash_order, last, score_in, score_out,
                   instances, route_requests,
                   lock, manager>>

(***************************************************************************)
(* Configurator.load_zcml and Configurator.make_wsgi_app, statement by     *)
(* statement, in concurrent threads                                        *)
(***************************************************************************)

\* the Configurator instances of the process
Configurators == 1..MaxConfigurators

\* a mutant of load_zcml_lock: every Configurator has a lock of its own
load_zcml_lock_per_instance(c) == c

\* the lock a call of load_zcml on Configurator c uses: the default of the
\* lock argument, threading.Lock(), is evaluated once, when the method is
\* defined, so it is one object for every call of every instance
load_zcml_lock(c) == 1

\* no thread holds a lock
NoLocks == [l \in Configurators |-> 0]

\* manager is a threading.local: each thread has a stack of its own
NoStacks == [t \in Threads |-> <<>>]

\* a mutant of finally_release: the lock is released only when the try
\* block has not raised
release_unless_raised(locks, th) ==
    IF th.raising THEN locks ELSE [locks EXCEPT ![load_zcml_lock(th.config)] = 0]

\* finally: lock.release()
finally_release(locks, th) == [locks EXCEPT ![load_zcml_lock(th.config)] = 0]

\* a thread calls load_zcml on Configurator c: _split_spec and, for a
\* package name, __import__, which raises ImportError when the package is
\* not importable
LoadZcml(t, c, importable) ==
    /\ threads[t].pc = "idle"
    /\ threads' = [threads EXCEPT ![t] =
           [pc |-> IF importable THEN "acquire" ELSE "raised",
            op |-> "load_zcml", config |-> c, raising |-> ~importable,
            depth |-> Len(manager[t]), entered |-> FALSE]]
    /\ UNCHANGED <<registry, multiviews, views, authn_policy, authz_policy,
                   debug_authorization, hash_order, last, score_in, score_out,
                   instances, route_requests, lock, manager>>

\* lock.acquire(): the thread waits while another holds the lock
LockAcquire(t) ==
    /\ threads[t].pc = "acquire"
    /\ lock[load_zcml_lock(threads[t].config)] = 0
    /\ lock' = [lock EXCEPT ![load_zcml_lock(threads[t].config)] = t]
    /\ threads' = [threads EXCEPT ![t].pc = "push"]
    /\ UNCHANGED <<registry, multiviews, views, authn_policy, authz_policy,
                   debug_authorization, hash_order, last, score_in, score_out,
                   instances, route_requests, manager>>

\* manager.push({'registry':self.registry, 'request':None}); the try block
\* is entered
ManagerPush(t) ==
    /\ threads[t].pc = "push"
    /\ manager' = [manager EXCEPT ![t] = Append(@, [registry |-> threads[t].config])]
    /\ threads' = [threads EXCEPT ![t].pc = "try", ![t].entered = TRUE]
    /\ UNCHANGED <<registry, multiviews, views, authn_policy, authz_policy,
                   debug_authorization, hash_order, last, score_in, score_out,
                   instances, route_requests, lock>>

\* xmlconfig.file(filename, package, execute=True) in load_zcml, or
\* self.registry.notify(WSGIApplicationCreatedEvent(app)) in make_wsgi_app,
\* returns or raises
TryBlock(t, ok) ==
    /\ threads[t].pc = "try"
    /\ threads' = [threads EXCEPT ![t].raising = ~ok,
                                  ![t].pc = IF threads[t].op = "load_zcml"
                                            THEN "release" ELSE "pop"]
    /\ UNCHANGED <<registry, multiviews, views, authn_policy, authz_policy,
                   debug_authorization, hash_order, last, score_in, score_out,
                   instances, route_requests, lock, manager>>

\* finally: lock.release()
LockRelease(t) ==
    /\ threads[t].pc = "release"
    /\ lock' = finally_release(lock, threads[t])
    /\ threads' = [threads EXCEPT ![t].pc = "pop"]
    /\ UNCHANGED <<registry, multiviews, views, authn_policy, authz_policy,
                   debug_authorization, hash_order, last, score_in, score_out,
                   instances, route_requests, manager>>

\* finally: manager.pop(); then return self.registry (or app), or the
\* exception of the try block goes on
ManagerPop(t) ==
    /\ threads[t].pc = "pop"
    /\ manager' = [manager EXCEPT ![t] = SubSeq(@, 1, Len(@) - 1)]
    /\ threads' = [threads EXCEPT ![t].pc = IF threads[t].raising
                                            THEN "raised" ELSE "returned"]
    /\ UNCHANGED <<registry, multiviews, views, authn_policy, authz_policy,
                   debug_authorization, hash_order, last, score_in, score_out,
                   instances, route_requests, lock>>

\* a thread calls make_wsgi_app on Configurator c: app = Router(self.registry)
MakeWsgiApp(t, c) ==
    /\ threads[t].pc = "idle"
    /\ threads' = [threads EXCEPT ![t] =
           [pc |-> "push", op |-> "make_wsgi_app", config |-> c,
            raising |-> FALSE, depth |-> Len(manager[t]), entered |-> FALSE]]
    /\ UNCHANGED <<registry, multiviews, views, authn_policy, authz_policy,
                   debug_authorization, hash_order, last, score_in, score_out,
                   instances, route_requests, lock, manager>>

\* the caller of load_zcml or make_wsgi_app goes on after the return or
\* the exception
CallEnded(t) ==
    /\ threads[t].pc \in {"returned", "raised"}
    /\ threads' = [threads EXCEPT ![t] = IdleThread]
    /\ UNCHANGED <<registry, multiviews, views, authn_policy, authz_policy,
                   debug_authorization, hash_order, last, score_in, score_out,
                   instances, route_requests, lock, manager>>

(***************************************************************************)
(* Specifications                                                          *)
(***************************************************************************)

AcceptTokens == <<"text/html", "application/json">>

InitWith(policies, debugs, orders) ==
    /\ registry = EmptyRegistry
    /\ multiviews = <<>>
    /\ views = <<>>
    /\ authn_policy \in policies
    /\ authz_policy = authn_policy
    /\ debug_authorization \in debugs
    /\ hash_order \in orders
    /\ last = [op |-> "init"]
    /\ score_in = <<>>
    /\ score_out = <<>>
    /\ instances = <<>>
    /\ route_requests = {}
    /\ threads = NoThreads
    /\ lock = NoLocks
    /\ manager = NoStacks

\* Dispatch: views that differ in request_method, registered for
\* Interface or IFoo under the name ""
DispatchOptions ==
    {[NoOptions EXCEPT !.request_method = m] : m \in {None, "GET", "POST"}}

DispatchRequests ==
    {Request(m, FALSE, TRUE, NoAccept, {}) : m \in {"GET", "POST", "DELETE"}}

DispatchContexts == {Context(f) : f \in ForTypes}

Init == InitWith({FALSE}, {FALSE}, {AcceptTokens})

Next ==
    \/ \E for \in ForTypes, o \in DispatchOptions, addr \in 1..MaxViews :
          AddView(for, "", o, None, ViewFunction("ok"), addr)
    \/ \E c \in DispatchContexts, r \in DispatchRequests : Match(c, r, "")
    \/ \E c \in DispatchContexts, r \in DispatchRequests : Call(c, r, "")
    \/ Return

Spec == Init /\ [][Next]_vars

\* Scores: _make_predicates applied to two option sets

\* score, predicates = _make_predicates(...), for each of the two inputs
MakePredicates ==
    /\ score_in # <<>>
    /\ score_out = <<>>
    /\ score_out' = <<_make_predicates(score_in[1]), _make_predicates(score_in[2])>>
    /\ UNCHANGED <<registry, multiviews, views, authn_policy, authz_policy,
                   debug_authorization, hash_order, last, score_in,
                   instances, route_requests, threads,
                   lock, manager>>

InitScore ==
    /\ registry = EmptyRegistry
    /\ multiviews = <<>>
    /\ views = <<>>
    /\ authn_policy = FALSE
    /\ authz_policy = FALSE
    /\ debug_authorization = FALSE
    /\ hash_order = AcceptTokens
    /\ last = [op |-> "init"]
    /\ score_in \in PredicateOptions \X PredicateOptions
    /\ score_out = <<>>
    /\ instances = <<>>
    /\ route_requests = {}
    /\ threads = NoThreads
    /\ lock = NoLocks
    /\ manager = NoStacks

NextScore == MakePredicates

SpecScore == InitScore /\ [][NextScore]_vars

\* Ordering: views with zero, one or two predicates registered under one key

OrderOptions ==
    {[NoOptions EXCEPT !.xhr = x, !.request_method = m] :
        x \in BOOLEAN, m \in {None, "GET"}}

OrderRequests ==
    {Request(m, x, TRUE, NoAccept, {}) : m \in {"GET", "POST"}, x \in BOOLEAN}

NextOrder ==
    \/ \E o \in OrderOptions, addr \in 1..MaxViews :
          AddView("Interface", "", o, None, ViewFunction("ok"), addr)
    \/ \E r \in OrderRequests : Match(Context("Interface"), r, "")
    \/ \E r \in OrderRequests : Call(Context("Interface"), r, "")
    \/ Return

SpecOrder == Init /\ [][NextOrder]_vars

\* Accept pools: views that differ in accept and request_method, registered
\* under one key; requests that differ in their Accept header

AcceptOptions ==
    {[NoOptions EXCEPT !.accept = a, !.request_method = m] :
        a \in {None, "text/html", "application/json"}, m \in {None, "GET"}}

AcceptHeaders ==
    {[m \in MimeTypes |-> IF m = "text/html" THEN q[1] ELSE q[2]] :
        q \in {<<0, 0>>, <<0, 2>>, <<2, 0>>, <<1, 2>>, <<1, 1>>}}

AcceptRequests ==
    {Request(m, FALSE, TRUE, a, {}) : m \in {"GET", "POST"}, a \in AcceptHeaders}
    \cup {Request("GET", FALSE, FALSE, NoAccept, {})}

HashOrders == {AcceptTokens, <<AcceptTokens[2], AcceptTokens[1]>>}

InitAccept == InitWith({FALSE}, {FALSE}, HashOrders)

NextAccept ==
    \/ \E o \in AcceptOptions, addr \in 1..MaxViews :
          AddView("Interface", "", o, None, ViewFunction("ok"), addr)
    \/ \E r \in AcceptRequests : GetViews(Context("Interface"), r, "")
    \/ \E r \in AcceptRequests : Match(Context("Interface"), r, "")
    \/ Return

SpecAccept == InitAccept /\ [][NextAccept]_vars

\* Authorization: views that differ in permission and request_method, with
\* and without security policies and debug_authorization; requests that
\* differ in method and principals

Permissions == {"edit"}

AuthOptions == {[NoOptions EXCEPT !.request_method = m] : m \in {None, "GET"}}

AuthRequests ==
    {Request(m, FALSE, TRUE, NoAccept, p) :
        m \in {"GET", "POST"}, p \in {{}, {"editor"}}}

InitAuth == InitWith(BOOLEAN, BOOLEAN, {AcceptTokens})

NextAuth ==
    \/ \E o \in AuthOptions, perm \in Permissions \cup {None}, addr \in 1..MaxViews :
          AddView("Interface", "", o, perm, ViewFunction("ok"), addr)
    \/ \E i \in 1..MaxViews, r \in AuthRequests : CallView(i, Context("Interface"), r)
    \/ \E r \in AuthRequests : Call(Context("Interface"), r, "")
    \/ Return

SpecAuth == InitAuth /\ [][NextAuth]_vars

\* Capabilities: views that differ in permission, request_method and accept,
\* with and without security policies and debug_authorization, registered
\* under one key in the order of their addresses

CapabilityOptions ==
    {[NoOptions EXCEPT !.request_method = m, !.accept = a] :
        m \in {None, "GET"}, a \in {None, "text/html"}}

CapabilityRequests ==
    {Request(m, FALSE, TRUE, [NoAccept EXCEPT !["text/html"] = 1], p) :
        m \in {"GET", "POST"}, p \in {{}, {"editor"}}}

NextCapability ==
    \/ \E o \in CapabilityOptions, perm \in Permissions \cup {None} :
          AddView("Interface", "", o, perm, ViewFunction("ok"), Len(views) + 1)
    \/ \E r \in CapabilityRequests : Permitted(Context("Interface"), r, "")
    \/ \E r \in CapabilityRequests : CallPermissive(Context("Interface"), r, "")
    \/ Return

SpecCapability == InitAuth /\ [][NextCapability]_vars

\* Invocation: views that return a response, raise NotFound or raise another
\* exception, with and without a request_method predicate and a permission,
\* registered under one key while both policies are configured

InvokeOptions == {[NoOptions EXCEPT !.request_method = m] : m \in {None, "GET"}}

\* <<permission, what the raw view does>>
InvokeViews ==
    {<<None, "ok">>, <<None, "NotFound">>, <<None, "Error">>, <<"edit", "ok">>}

InvokeRequests ==
    {Request(m, FALSE, TRUE, NoAccept, p) :
        m \in {"GET", "POST"}, p \in {{}, {"editor"}}}

InitInvoke == InitWith({TRUE}, {FALSE}, {AcceptTokens})

NextInvoke ==
    \/ \E o \in InvokeOptions, v \in InvokeViews, addr \in 1..MaxViews :
          AddView("Interface", "", o, v[1], ViewFunction(v[2]), addr)
    \/ \E r \in InvokeRequests : Call(Context("Interface"), r, "")
    \/ \E i \in 1..MaxViews, r \in InvokeRequests : CallView(i, Context("Interface"), r)
    \/ Return

SpecInvoke == InitInvoke /\ [][NextInvoke]_vars

\* Mapping: functions and classes that take (context, request) or the
\* request alone, registered under one key and called one by one or through
\* the entry of the key

MapViews ==
    {RawView("function", <<"context", "request">>, 0, "ok"),
     RawView("function", <<"request">>, 0, "ok"),
     RawView("function", <<"request", "flag">>, 1, "ok"),
     RawView("function", <<"request", "extra">>, 0, "ok"),
     RawView("class", <<"self", "context", "request">>, 0, "ok"),
     RawView("class", <<"self", "request">>, 0, "ok")}

MapRequests == {Request("GET", FALSE, TRUE, NoAccept, {})}

NextMap ==
    \/ \E v \in MapViews : AddView("Interface", "", NoOptions, None, v, Len(views) + 1)
    \/ \E i \in 1..MaxViews, r \in MapRequests : CallView(i, Context("Interface"), r)
    \/ \E r \in MapRequests : Call(Context("Interface"), r, "")
    \/ Return

SpecMap == Init /\ [][NextMap]_vars

\* Configuration: a Configurator made with and without policies, and add_view
\* calls with and without view, renderer, request_type, route_name and with
\* valid and invalid patterns

ConfigOptions ==
    {[NoOptions EXCEPT !.request_type = t, !.route_name = r] :
        t \in {None, "IRequest", "GET"}, r \in {None, "r"}}
    \cup {[NoOptions EXCEPT !.renderer = x] : x \in {"json", "nope"}}
    \cup {[NoOptions EXCEPT !.path_info = p, !.header = h] :
            p \in {None, "/a.*", "("}, h \in {None, "UA:Moz.*", "UA:("}}
    \cup {[NoOptions EXCEPT !.path_info = "(", !.route_name = "r"],
          [NoOptions EXCEPT !.renderer = "nope", !.route_name = "r"]}

ConfigViews == {NoRawView, ViewFunction("ok")}

ConfigRequests == {Request("GET", FALSE, TRUE, NoAccept, {})}

InitConfig ==
    /\ registry = EmptyRegistry
    /\ multiviews = <<>>
    /\ views = <<>>
    /\ authn_policy = FALSE
    /\ authz_policy = FALSE
    /\ debug_authorization = FALSE
    /\ hash_order = AcceptTokens
    /\ last = [op |-> "new"]
    /\ score_in = <<>>
    /\ score_out = <<>>
    /\ instances = <<>>
    /\ route_requests = {}
    /\ threads = NoThreads
    /\ lock = NoLocks
    /\ manager = NoStacks

NextConfig ==
    \/ \E authn, authz \in BOOLEAN : SetupRegistry(FALSE, authn, authz)
    \/ \E o \in ConfigOptions, v \in ConfigViews :
          AddView("Interface", "", o, None, v, Len(views) + 1)
    \/ \E r \in ConfigRequests : Call(Context("Interface"), r, "")
    \/ Return

SpecConfig == InitConfig /\ [][NextConfig]_vars

\* Wildcards: views that differ in accept, a mime type or a wildcard,
\* registered under one key

WildcardOptions ==
    {[NoOptions EXCEPT !.accept = a] : a \in {None, "text/html", "text/*", "*/*"}}

WildcardRequests ==
    {Request("GET", FALSE, TRUE, a, {}) : a \in AcceptHeaders}

InitWildcard ==
    InitWith({FALSE}, {FALSE}, {<<"text/html", "application/json", "text/*">>})

NextWildcard ==
    \/ \E o \in WildcardOptions, addr \in 1..MaxViews :
          AddView("Interface", "", o, None, ViewFunction("ok"), addr)
    \/ \E r \in WildcardRequests : GetViews(Context("Interface"), r, "")
    \/ Return

SpecWildcard == InitWildcard /\ [][NextWildcard]_vars

\* Layers: views named "" with and without a request_method predicate, a
\* permission and the wrapper "w", and plain views named "w", while both
\* policies are configured, with and without debug_authorization

\* <<name, options, permission>>
LayerInputs ==
    {<<"", [NoOptions EXCEPT !.request_method = m, !.wrapper = w], perm>> :
        m \in {None, "GET"}, w \in {None, "w"}, perm \in {None, "edit"}}
    \cup {<<"w", NoOptions, None>>}

LayerRequests ==
    {Request(m, FALSE, TRUE, NoAccept, p) :
        m \in {"GET", "POST"}, p \in {{}, {"editor"}}}

InitLayers == InitWith({TRUE}, BOOLEAN, {AcceptTokens})

NextLayers ==
    \/ \E i \in LayerInputs :
          AddView("Interface", i[1], i[2], i[3], ViewFunction("ok"), Len(views) + 1)
    \/ \E i \in 1..MaxViews, r \in LayerRequests : CallView(i, Context("Interface"), r)
    \/ \E r \in LayerRequests : Call(Context("Interface"), r, "")
    \/ Return

SpecLayers == InitLayers /\ [][NextLayers]_vars

\* Late policies: views with and without a permission registered before,
\* between and after the two policies are set

LateRequests ==
    {Request("GET", FALSE, TRUE, NoAccept, p) : p \in {{}, {"editor"}}}

InitLate == InitWith({FALSE}, BOOLEAN, {AcceptTokens})

NextLate ==
    \/ SetAuthenticationPolicy
    \/ SetAuthorizationPolicy
    \/ \E perm \in Permissions \cup {None} :
          AddView("Interface", "", NoOptions, perm, ViewFunction("ok"), Len(views) + 1)
    \/ \E i \in 1..MaxViews, r \in LateRequests : CallView(i, Context("Interface"), r)
    \/ Return

SpecLate == InitLate /\ [][NextLate]_vars

\* Concurrent requests: the registry is built while no request runs; then
\* threads go through get_views statement by statement, interleaved with each
\* other and with whole match, __call__, __permitted__ and
\* __call_permissive__ calls

ConcurrentOptions ==
    {[NoOptions EXCEPT !.accept = a] : a \in {None, "text/html", "application/json"}}

ConcurrentRequests ==
    {Request("GET", FALSE, TRUE, [m \in MimeTypes |-> IF m = "text/html" THEN q[1] ELSE q[2]], {}) :
        q \in {<<1, 2>>, <<2, 0>>}}

InitConcurrent == InitWith({FALSE}, {FALSE}, {AcceptTokens})

NextConcurrent ==
    \/ /\ AllIdle
       /\ \E o \in ConcurrentOptions :
             AddView("Interface", "", o, None, ViewFunction("ok"), Len(views) + 1)
    \/ \E t \in Threads, r \in ConcurrentRequests : GVStart(t, Context("Interface"), r, "")
    \/ \E t \in Threads : GVStep(t)
    \/ \E t \in Threads : GVFinish(t)
    \/ \E t \in Threads : GVReturn(t)
    \/ \E r \in ConcurrentRequests : Match(Context("Interface"), r, "")
    \/ \E r \in ConcurrentRequests : Call(Context("Interface"), r, "")
    \/ \E r \in ConcurrentRequests : Permitted(Context("Interface"), r, "")
    \/ \E r \in ConcurrentRequests : CallPermissive(Context("Interface"), r, "")
    \/ Return

SpecConcurrent == InitConcurrent /\ [][NextConcurrent]_vars

\* match against __call__: views that differ in request_method and accept,
\* with and without a permission, whose raw view always answers

AgreeOptions ==
    {[NoOptions EXCEPT !.request_method = m, !.accept = a] :
        m \in {None, "GET"}, a \in {None, "text/html"}}

AgreeRequests ==
    {Request(m, FALSE, TRUE, [NoAccept EXCEPT !["text/html"] = 1], p) :
        m \in {"GET", "POST"}, p \in {{}, {"editor"}}}

InitAgree == InitWith({TRUE}, {FALSE}, {AcceptTokens})

NextAgree ==
    \/ \E o \in AgreeOptions, perm \in Permissions \cup {None} :
          AddView("Interface", "", o, perm, ViewFunction("ok"), Len(views) + 1)
    \/ \E r \in AgreeRequests : Match(Context("Interface"), r, "")
    \/ \E r \in AgreeRequests : Call(Context("Interface"), r, "")
    \/ Return

SpecAgree == InitAgree /\ [][NextAgree]_vars

\* Header predicates: views registered with a header name or with
\* name:value-regex, alone or next to a request_method; requests without
\* the header, with a value the regex matches and with one it does not

HeaderOptions ==
    {[NoOptions EXCEPT !.header = h, !.request_method = m] :
        h \in {"UA", "UA:Moz.*"}, m \in {None, "GET"}}

HeaderRequests ==
    {[Request(m, FALSE, TRUE, NoAccept, {}) EXCEPT !.headers = h] :
        m \in {"GET", "POST"},
        h \in {<<>>, [UA |-> "Mozilla"], [UA |-> "curl"], [Host |-> "Mozilla"]}}

InitHeader == InitWith({FALSE}, {FALSE}, {AcceptTokens})

NextHeader ==
    \/ \E o \in HeaderOptions :
          AddView("Interface", "", o, None, ViewFunction("ok"), Len(views) + 1)
    \/ \E i \in 1..MaxViews, r \in HeaderRequests : CallView(i, Context("Interface"), r)
    \/ \E r \in HeaderRequests : Match(Context("Interface"), r, "")
    \/ Return

SpecHeader == InitHeader /\ [][NextHeader]_vars

\* Parameter shapes: functions, classes (their __init__) and instances
\* (their __call__) that take nothing, one argument, request and more with
\* and without defaults, or context and request

ShapeViews ==
    {RawView(c, args, n, "ok") :
        c \in {"function"},
        args \in {<<>>, <<"request">>, <<"context">>, <<"context", "request">>,
                  <<"request", "other">>, <<"request", "a", "b">>},
        n \in 0..2}
    \cup {RawView(c, args, n, "ok") :
        c \in {"class", "instance"},
        args \in {<<"self">>, <<"self", "request">>, <<"self", "context", "request">>,
                  <<"self", "request", "other">>},
        n \in 0..1}

\* defaults belong to the last arguments: there are at most as many as arguments
WellFormed(view) == view.ndefaults <= Len(view.args)

NextShape ==
    \E v \in {w \in ShapeViews : WellFormed(w)} :
        AddView("Interface", "", NoOptions, None, v, Len(views) + 1)

SpecShape == Init /\ [][NextShape]_vars

\* Rendering: views of every calling convention, with and without a
\* renderer, that return objects with some of the attributes of a response,
\* called with requests that carry response_ attributes

RenderViews ==
    {RawView("function", <<"context", "request">>, 0, "ok"),
     RawView("function", <<"request">>, 0, "ok"),
     RawView("class", <<"self", "context", "request">>, 0, "ok"),
     RawView("class", <<"self", "request">>, 0, "ok")}

NextRender ==
    \/ \E v \in RenderViews, r \in {None, "json", ".pt"},
          attrs \in SUBSET ResponseAttrs, overrides \in SUBSET ResponseOverrides :
          CallMapped(v, r, attrs, overrides)
    \/ Return

SpecRender == Init /\ [][NextRender]_vars

\* Predicates: one view with any of the seven predicates, called with
\* requests and contexts that make each of them true or false, or the
\* header predicate raise

EachPredicateOptions ==
    {[NoOptions EXCEPT !.xhr = x, !.request_method = m, !.path_info = p,
                       !.request_param = q, !.header = h, !.accept = a,
                       !.containment = c] :
        x \in BOOLEAN, m \in {None, "GET"}, p \in {None, "/a.*"},
        q \in {None, "foo=1"}, h \in {None, "UA:Moz.*"},
        a \in {None, "text/html"}, c \in {None, "IFolder"}}

EachPredicateRequests ==
    {[Request(m, x, TRUE, a, {}) EXCEPT !.path_info = p, !.params = q, !.headers = h] :
        m \in {"GET", "POST"}, x \in BOOLEAN,
        a \in {NoAccept, [NoAccept EXCEPT !["text/html"] = 1]},
        p \in {"/a", "/b"}, q \in {<<>>, [foo |-> "1"]},
        h \in {<<>>, [UA |-> "Mozilla"]}}

EachPredicateContexts ==
    {Context("Interface"),
     [Context("Interface") EXCEPT !.lineage = {"Interface", "IFolder"}]}

NextEachPredicate ==
    \/ \E o \in EachPredicateOptions :
          views = <<>> /\ AddView("Interface", "", o, None, ViewFunction("ok"), 1)
    \/ \E c \in EachPredicateContexts, r \in EachPredicateRequests : CallView(1, c, r)
    \/ Return

SpecEachPredicate == Init /\ [][NextEachPredicate]_vars

\* ZCML loading: threads that call load_zcml and make_wsgi_app on the
\* Configurators of the process, with loads that succeed and loads that fail

NextZcml ==
    \/ \E t \in Threads, c \in Configurators, importable \in BOOLEAN :
          LoadZcml(t, c, importable)
    \/ \E t \in Threads, c \in Configurators : MakeWsgiApp(t, c)
    \/ \E t \in Threads : LockAcquire(t)
    \/ \E t \in Threads : ManagerPush(t)
    \/ \E t \in Threads, ok \in BOOLEAN : TryBlock(t, ok)
    \/ \E t \in Threads : LockRelease(t)
    \/ \E t \in Threads : ManagerPop(t)
    \/ \E t \in Threads : CallEnded(t)

SpecZcml == Init /\ [][NextZcml]_vars

(***************************************************************************)
(* Properties                                                              *)
(***************************************************************************)

Scored == score_out # <<>> /\ score_out[1].raised = None /\ score_out[2].raised = None

\* C2: of two option sets _make_predicates accepts, the one that yields
\* strictly more predicates gets the strictly lower score
C2_MorePredicatesLowerScore ==
    (Scored /\ Len(score_out[1].predicates) > Len(score_out[2].predicates))
        => score_out[1].score < score_out[2].score

\* seven predicates against six: the closest the two scores come
C2_Witness ==
    /\ Scored
    /\ Len(score_out[1].predicates) = 7
    /\ Len(score_out[2].predicates) = 6
    /\ score_out[1].score < score_out[2].score

\* the call `last` records found a view by MultiView.match, or got a response
\* from the view with this id
Resolved(id) ==
    \/ last.op = "match" /\ last.result.kind = "view" /\ last.result.view.id = id
    \/ last.op = "call" /\ last.outcome.kind = "response" /\ last.outcome.by = id

ResolvedNotFound ==
    \/ last.op = "match" /\ last.result.kind = "NotFound"
    \/ last.op = "call" /\ last.outcome.kind = "NotFound"

\* add_view(A, name='', request_method='GET') then
\* add_view(B, name='', request_method='POST') for the same for_ and request type
GetThenPost ==
    /\ Len(views) = 2
    /\ views[1].key = views[2].key
    /\ views[1].options = [NoOptions EXCEPT !.request_method = "GET"]
    /\ views[2].options = [NoOptions EXCEPT !.request_method = "POST"]

\* C1: after a GET view A and then a POST view B are registered under one
\* key, match and __call__ of the entry resolve a GET request to A, a POST
\* request to B, and raise NotFound for a DELETE request
C1_GetPostDelete ==
    (GetThenPost /\ last.op \in {"match", "call"}) =>
        CASE last.request.method = "GET" -> Resolved(1)
          [] last.request.method = "POST" -> Resolved(2)
          [] OTHER -> ResolvedNotFound

C1_Witness ==
    /\ GetThenPost
    /\ last.op = "call"
    /\ last.request.method = "POST"
    /\ last.outcome.by = 2

\* every (score, view) pair a MultiView holds, the accept pools first
RECURSIVE pools_of(_, _)
pools_of(mv, accepts) ==
    IF accepts = <<>> THEN mv.views
    ELSE mv.media_views[accepts[1]] \o pools_of(mv, Tail(accepts))

all_pairs(mv) == pools_of(mv, mv.accepts)

\* the add_view calls made for a key
registrations(key) == {i \in 1..Len(views) : views[i].key = key}

\* the predicates a view was registered with
npredicates(view) == views[view.id].npredicates

\* C3: a view registered without predicates gets the score sys.maxint, and in
\* a MultiView it comes after every view registered with a predicate
C3_ZeroPredicatesLast ==
    /\ \A i \in 1..Len(views) : views[i].npredicates = 0 => views[i].score = MaxInt
    /\ \A ref \in 1..Len(multiviews) :
          \A i, j \in 1..Len(multiviews[ref].views) :
             (/\ i < j
              /\ npredicates(multiviews[ref].views[i][2]) = 0)
                 => npredicates(multiviews[ref].views[j][2]) = 0

\* C4: a key with n >= 2 add_view calls has one registration, a MultiView,
\* whose pools hold exactly n pairs
C4_ExactlyNPairs ==
    \A key \in Keys :
        Cardinality(registrations(key)) >= 2 =>
            /\ Cardinality({i \in seq_range(ViewIfaces) : registry[key][i] # NoObject}) = 1
            /\ registered(registry, key).t = "multiview"
            /\ Len(all_pairs(multiviews[registered(registry, key).ref]))
                    = Cardinality(registrations(key))

\* C5: a view that add_view moved from a single registration into a
\* MultiView is held there at the score computed when it was registered
C5_OriginalScoreKept ==
    \A ref \in 1..Len(multiviews) :
        \A i \in 1..Len(all_pairs(multiviews[ref])) :
            all_pairs(multiviews[ref])[i][1] = views[all_pairs(multiviews[ref])[i][2].id].score

\* C6: in the generic pool a view registered with more predicates comes
\* before a view registered with fewer
C6_MorePredicatesFirst ==
    \A ref \in 1..Len(multiviews) :
        \A i, j \in 1..Len(multiviews[ref].views) :
            i < j => npredicates(multiviews[ref].views[i][2])
                        >= npredicates(multiviews[ref].views[j][2])

pool_sorted(pool) == \A i, j \in 1..Len(pool) : i < j => pool[i][1] <= pool[j][1]

\* C7: the generic pool and every accept pool of every MultiView is sorted by
\* score, ascending
C7_PoolsSorted ==
    \A ref \in 1..Len(multiviews) :
        /\ pool_sorted(multiviews[ref].views)
        /\ \A a \in DOMAIN multiviews[ref].media_views :
              pool_sorted(multiviews[ref].media_views[a])

\* an accept pool in which a view added later stands before one added
\* earlier, at a lower score
C7_Witness ==
    \E ref \in 1..Len(multiviews) :
        \E a \in DOMAIN multiviews[ref].media_views :
            /\ Len(multiviews[ref].media_views[a]) = 2
            /\ multiviews[ref].media_views[a][1][1] < multiviews[ref].media_views[a][2][1]
            /\ multiviews[ref].media_views[a][1][2].id > multiviews[ref].media_views[a][2][2].id

ids(candidates) == [i \in 1..Len(candidates) |-> candidates[i][2].id]

\* get_views was called on a MultiView with the accept pools
\* {text/html: [h1], application/json: [h2]} and the generic pool [h3], for a
\* request whose best match among the keys is application/json
JsonBest ==
    /\ last.op = "get_views"
    /\ last.request.has_accept
    /\ LET mv == multiviews[last.ref]
       IN  /\ DOMAIN mv.media_views = {"text/html", "application/json"}
           /\ Len(mv.media_views["text/html"]) = 1
           /\ Len(mv.media_views["application/json"]) = 1
           /\ Len(mv.views) = 1
           /\ best_match(last.request.accept, mv.accepts) = "application/json"

h1 == multiviews[last.ref].media_views["text/html"][1][2].id
h2 == multiviews[last.ref].media_views["application/json"][1][2].id
h3 == multiviews[last.ref].views[1][2].id

\* C8 as claimed: the candidates are [h2, h3] for every such request
C8_Claimed == JsonBest => ids(last.candidates) = <<h2, h3>>

\* C8: the candidates are [h2, h3] when the request does not accept
\* text/html, and [h2, h1, h3] when it accepts text/html as well
C8_JsonThenRest ==
    JsonBest => ids(last.candidates) =
                    IF last.request.accept["text/html"] > 0
                    THEN <<h2, h1, h3>> ELSE <<h2, h3>>

C8_Witness ==
    /\ JsonBest
    /\ last.request.accept["text/html"] = 0
    /\ ids(last.candidates) = <<h2, h3>>

\* some predicate the view was registered with is false of (context, request)
rejects(view, context, request) ==
    \E i \in 1..Len(view.predicates) :
        ~eval_predicate(view.predicates[i], context, request)

\* C9: match raises NotFound when every candidate of the resolved sequence
\* has a predicate that rejects (context, request)
C9_AllRejectNotFound ==
    (/\ last.op = "match"
     /\ \A c \in seq_range(get_views(multiviews[last.ref], last.request)) :
            rejects(c[2], last.context, last.request))
        => last.result.kind = "NotFound"

\* a view derived with a permission while both policies are registered has
\* been called
PermissionViewCalled ==
    /\ last.op = "call_view"
    /\ views[last.id].permission # None
    /\ authn_policy
    /\ authz_policy

LastPermits ==
    permits(last.context, effective_principals(last.request), views[last.id].permission)

RawViewCalled(trace) == \E i \in 1..Len(trace) : trace[i][1] = "view"

PermissionOutcome ==
    IF LastPermits
    THEN last.outcome.kind = "response" /\ last.outcome.by = last.id
    ELSE last.outcome.kind = "Forbidden" /\ ~RawViewCalled(last.outcome.trace)

\* C10 as claimed: every view derived with a permission raises Forbidden
\* without calling the raw view when permits is false, and returns the raw
\* view's response when permits is true
C10_Claimed == PermissionViewCalled => PermissionOutcome

\* C10: so it is when the predicates the view was registered with all accept
\* (context, request)
C10_ForbiddenOrResult ==
    (/\ PermissionViewCalled
     /\ all_predicates(views[last.id].view.predicates, last.context, last.request) = "true")
        => PermissionOutcome

C10_Witness ==
    /\ PermissionViewCalled
    /\ views[last.id].npredicates = 1
    /\ last.request.method = "GET"
    /\ ~LastPermits
    /\ last.outcome.kind = "Forbidden"

\* C11: the view add_view derived has __permitted__ and __call_permissive__
\* when it was registered with a permission under both policies,
\* __predicated__ when it was registered with predicates, and __accept__ when
\* it was registered with accept, whatever the combination
C11_EveryCapabilityExposed ==
    \A i \in 1..Len(views) :
        /\ (views[i].permission # None /\ authn_policy /\ authz_policy)
              => (views[i].view.attrs.permitted /\ views[i].view.attrs.call_permissive)
        /\ views[i].npredicates > 0 => views[i].view.attrs.predicated
        /\ views[i].options.accept # None
              => views[i].view.attrs.accept = views[i].options.accept

\* the answer __permitted__ owes for the view match selects: permits for a
\* view registered with a permission under both policies, True otherwise
PermittedOwed ==
    LET m == mv_match(multiviews[last.ref], last.context, last.request)
        reg == views[m.view.id]
    IN  IF reg.permission # None /\ authn_policy /\ authz_policy
        THEN permits(last.context, effective_principals(last.request), reg.permission)
        ELSE TRUE

\* the view match selects was called without its permission check and
\* without any other layer
PermissiveOwed ==
    LET m == mv_match(multiviews[last.ref], last.context, last.request)
        reg == views[m.view.id]
    IN  (reg.permission # None /\ authn_policy /\ authz_policy)
            => /\ last.outcome.kind = "response"
               /\ last.outcome.by = m.view.id
               /\ \A n \in 1..Len(last.outcome.trace) :
                      last.outcome.trace[n][1] # "permits"

\* C12: __permitted__ of a MultiView is permits(...) when the view match
\* selects was registered with a permission under both policies and True only
\* when it was not; __call_permissive__ calls the selected view without its
\* permission check
C12_PermittedOfSelected ==
    /\ (last.op = "permitted" /\ last.result.kind = "value")
           => last.result.value = PermittedOwed
    /\ (last.op = "call_permissive" /\ last.outcome.kind # "NotFound")
           => PermissiveOwed

\* __call__ of a MultiView has returned or raised
MultiViewCalled == last.op = "call" /\ last.found.t = "multiview"

\* the candidates __call__ iterates over
Candidates == get_views(multiviews[last.found.ref], last.request)

\* what candidate i does when called with (context, request) by itself
Alone(i) == call_view(Candidates[i][2], last.context, last.request)

\* the first candidate that does not raise NotFound (0: there is none)
FirstEnding ==
    LET ending == {i \in 1..Len(Candidates) : Alone(i).kind # "NotFound"}
    IN  IF ending = {} THEN 0 ELSE CHOOSE i \in ending : \A j \in ending : i <= j

\* where the view of a trace event stands among the candidates
CandidateOf(event) == CHOOSE i \in 1..Len(Candidates) : Candidates[i][2].id = event[2]

\* the candidates that were invoked are exactly the first k, in their order
InvokedInOrder(k) ==
    LET trace == last.outcome.trace
    IN  /\ {CandidateOf(trace[n]) : n \in 1..Len(trace)} = 1..k
        /\ \A m, n \in 1..Len(trace) :
               m < n => CandidateOf(trace[m]) <= CandidateOf(trace[n])

\* C13: __call__ of a MultiView calls the candidates in order, goes on after
\* each NotFound, returns the response of the first candidate that does not
\* raise NotFound without calling a later one, and raises NotFound when all
\* candidates raised it
C13_FirstResultReturned ==
    MultiViewCalled =>
        IF FirstEnding = 0
        THEN last.outcome.kind = "NotFound" /\ InvokedInOrder(Len(Candidates))
        ELSE Alone(FirstEnding).kind = "response" =>
                /\ last.outcome.kind = "response"
                /\ last.outcome.by = Candidates[FirstEnding][2].id
                /\ InvokedInOrder(FirstEnding)

\* the second candidate answers after the first raised NotFound, and a third
\* is left uncalled
C13_Witness ==
    /\ MultiViewCalled
    /\ Len(Candidates) = 3
    /\ FirstEnding = 2
    /\ last.outcome.kind = "response"
    /\ last.outcome.by = Candidates[2][2].id

\* C14: an exception other than NotFound that a candidate raises (Forbidden
\* of the permission check included) leaves __call__ as it is, and no later
\* candidate is called
C14_OtherExceptionsPropagate ==
    (/\ MultiViewCalled
     /\ FirstEnding # 0
     /\ Alone(FirstEnding).kind # "response")
        => /\ last.outcome.kind = Alone(FirstEnding).kind
           /\ last.outcome.msg = Alone(FirstEnding).msg
           /\ InvokedInOrder(FirstEnding)

\* Forbidden from the second of three candidates, after NotFound from the first
C14_Witness ==
    /\ MultiViewCalled
    /\ Len(Candidates) = 3
    /\ FirstEnding = 2
    /\ last.outcome.kind = "Forbidden"
    /\ Alone(3).kind = "response"

\* the raw view takes the request alone: one argument besides self and
\* those with defaults
TakesRequestOnly(raw) ==
    Len(IF raw.callable = "class" THEN Tail(raw.args) ELSE raw.args) - raw.ndefaults = 1

Happened(what, id) ==
    \E n \in 1..Len(last.outcome.trace) : last.outcome.trace[n] = Event(what, id)

\* C15: the derived view of a request-only view and of a (context, request)
\* view is called with (context, request) and answers with the raw view's
\* response; a request-only function receives the request alone, the other
\* both; a class is instantiated during each call, with the arguments its
\* __init__ takes, and that new instance is the one called
C15_MappedCallShape ==
    last.op = "call_view" =>
        LET raw == views[last.id].raw
            args == IF TakesRequestOnly(raw) THEN "(request)" ELSE "(context, request)"
        IN  /\ last.outcome.kind = "response"
            /\ last.outcome.by = last.id
            /\ raw.callable = "function" =>
                  /\ Happened(IF TakesRequestOnly(raw) THEN "view(request)"
                              ELSE "view(context, request)", last.id)
                  /\ ~Happened(IF TakesRequestOnly(raw) THEN "view(context, request)"
                               ELSE "view(request)", last.id)
                  /\ instances = SubSeq(instances, 1, last.instances_before)
            /\ raw.callable = "class" =>
                  /\ Len(instances) = last.instances_before + 1
                  /\ instances[Len(instances)] =
                        [cls |-> last.id,
                         args |-> IF TakesRequestOnly(raw) THEN "new(request)"
                                  ELSE "new(context, request)"]
                  /\ Happened("inst()", last.id)

\* the second call of a view class that takes the request alone: a second instance
C15_Witness ==
    /\ last.op = "call_view"
    /\ views[last.id].raw = RawView("class", <<"self", "request">>, 0, "ok")
    /\ last.instances_before = 1
    /\ Len(instances) = 2
    /\ instances[1] = instances[2]
    /\ instances[2].cls = last.id

\* add_view has returned or raised and has left the registry, the MultiView
\* objects and the registered views as they were
NothingInstalled ==
    /\ registry = last.before.registry
    /\ multiviews = last.before.multiviews
    /\ views = SubSeq(views, 1, last.before.nviews)

NeitherViewNorRenderer ==
    last.args.view = NoRawView /\ last.args.o.renderer = None

\* C16 as claimed: add_view with a request_type and a route_name, or with
\* neither view nor renderer, raises ConfigurationError and installs nothing
C16_Claimed ==
    (/\ last.op = "add_view"
     /\ \/ last.args.o.request_type # None /\ last.args.o.route_name # None
        \/ NeitherViewNorRenderer)
        => /\ last.raised = "ConfigurationError"
           /\ NothingInstalled
           /\ route_requests = last.before.route_requests

\* C16: so it is when the request_type is not one of the request method
\* names add_view takes for a request_method
C16_ConflictRaises ==
    (/\ last.op = "add_view"
     /\ \/ /\ last.args.o.request_type \notin {None, "GET", "HEAD", "PUT", "POST", "DELETE"}
           /\ last.args.o.route_name # None
        \/ NeitherViewNorRenderer)
        => /\ last.raised = "ConfigurationError"
           /\ NothingInstalled
           /\ route_requests = last.before.route_requests

\* request_type=IRequest with route_name='r' on a registry that holds a view
C16_Witness ==
    /\ last.op = "add_view"
    /\ last.args.o.request_type = "IRequest"
    /\ last.args.o.route_name = "r"
    /\ last.args.view # NoRawView
    /\ last.raised = "ConfigurationError"
    /\ Len(views) = 1
    /\ NothingInstalled

\* the path_info or the value of the header given to add_view is not a
\* regular expression
InvalidPatternGiven ==
    \/ last.args.o.path_info = "("
    \/ last.args.o.header = "UA:("

\* C17: add_view with a path_info or a header value that is not a regular
\* expression raises ConfigurationError; no view is derived or scored and
\* nothing is registered
C17_InvalidPatternRaises ==
    (last.op = "add_view" /\ InvalidPatternGiven)
        => /\ last.raised = "ConfigurationError"
           /\ NothingInstalled

\* an invalid header value next to a valid path_info
C17_Witness ==
    /\ last.op = "add_view"
    /\ last.args.o.header = "UA:("
    /\ last.args.o.path_info = "/a.*"
    /\ last.args.view # NoRawView
    /\ last.raised = "ConfigurationError"
    /\ NothingInstalled

\* C18: a Configurator given an authorization policy and no authentication
\* policy raises ConfigurationError and registers neither policy
C18_AuthorizationNeedsAuthentication ==
    (/\ last.op = "setup_registry"
     /\ last.args.authorization_policy
     /\ ~last.args.authentication_policy)
        => /\ last.raised = "ConfigurationError"
           /\ ~authn_policy
           /\ ~authz_policy

C18_Witness ==
    /\ last.op = "setup_registry"
    /\ last.args.authorization_policy
    /\ ~last.args.authentication_policy
    /\ last.raised = "ConfigurationError"
    /\ ~authz_policy

\* the accept a view was registered with
accept_of(pair) == views[pair[2].id].options.accept

\* every view of every MultiView is in the pool `generic` tells: the generic
\* pool when generic(accept), the accept pool named by its accept otherwise
PooledBy(generic(_)) ==
    \A ref \in 1..Len(multiviews) :
        LET mv == multiviews[ref]
        IN  /\ \A n \in 1..Len(mv.views) : generic(accept_of(mv.views[n]))
            /\ \A a \in DOMAIN mv.media_views :
                  \A n \in 1..Len(mv.media_views[a]) :
                     /\ ~generic(accept_of(mv.media_views[a][n]))
                     /\ accept_of(mv.media_views[a][n]) = a

FullWildcardOrAbsent(accept) == accept \in {None, "*/*"}

AnyWildcardOrAbsent(accept) == accept \in {None, "*/*", "text/*"}

\* C19 as claimed: MultiView.add puts a view into the generic pool only when
\* its accept is absent or */*, and into the pool of its accept otherwise,
\* text/* included
C19_Claimed == PooledBy(FullWildcardOrAbsent)

\* C19: MultiView.add puts a view into the generic pool when its accept is
\* absent or contains a wildcard (*/* or text/*), and into the pool of its
\* accept otherwise
C19_WildcardsGeneric == PooledBy(AnyWildcardOrAbsent)

\* a text/* view in the generic pool next to a text/html pool
C19_Witness ==
    \E ref \in 1..Len(multiviews) :
        /\ "text/html" \in DOMAIN multiviews[ref].media_views
        /\ \E n \in 1..Len(multiviews[ref].views) :
              accept_of(multiviews[ref].views[n]) = "text/*"

\* the accept keys of a MultiView the request accepts, best first: higher
\* quality first, and among equals the one that stands first in the key list
RankedKeys(mv, request) ==
    LET pos(k) == CHOOSE n \in 1..Len(mv.accepts) : mv.accepts[n] = k
        ok == {k \in seq_range(mv.accepts) : request.accept[k] > 0}
        before(k) == {j \in ok : \/ request.accept[j] > request.accept[k]
                                \/ /\ request.accept[j] = request.accept[k]
                                   /\ pos(j) < pos(k)}
    IN  [n \in 1..Cardinality(ok) |->
            CHOOSE k \in ok : Cardinality(before(k)) = n - 1]

\* C20: get_views yields the accept pools the request accepts, best match
\* first, each in score order, and then the whole generic pool; it yields
\* the generic pool alone when the MultiView has no accept pool or the
\* request has no accept attribute
C20_AcceptPoolsThenGeneric ==
    last.op = "get_views" =>
        LET mv == multiviews[last.ref]
        IN  IF mv.accepts # <<>> /\ last.request.has_accept
            THEN /\ last.candidates = pools_of(mv, RankedKeys(mv, last.request))
                 /\ SubSeq(last.candidates,
                           Len(last.candidates) - Len(mv.views) + 1,
                           Len(last.candidates)) = mv.views
            ELSE last.candidates = mv.views

\* both accept pools taken, in the order of the request's preference and
\* against the order of the key list, before the generic pool
C20_Witness ==
    /\ last.op = "get_views"
    /\ last.request.has_accept
    /\ Len(multiviews[last.ref].accepts) = 2
    /\ Len(multiviews[last.ref].views) = 1
    /\ last.request.accept[multiviews[last.ref].accepts[2]]
          > last.request.accept[multiviews[last.ref].accepts[1]]
    /\ last.request.accept[multiviews[last.ref].accepts[1]] > 0
    /\ Len(last.candidates) = 3
    /\ last.candidates[3] = multiviews[last.ref].views[1]

\* the candidate MultiView.match owes: the first that has no __predicated__
\* or whose predicates are all true of (context, request); 0 when none is
FirstMatching(candidates, context, request) ==
    LET fit == {i \in 1..Len(candidates) :
                   \/ ~candidates[i][2].attrs.predicated
                   \/ \A n \in 1..Len(candidates[i][2].predicates) :
                         eval_predicate(candidates[i][2].predicates[n],
                                        context, request)}
    IN  IF fit = {} THEN 0 ELSE CHOOSE i \in fit : \A j \in fit : i <= j

\* C21: MultiView.match returns the first candidate that has no
\* __predicated__ or whose __predicated__ is true of (context, request),
\* raises NotFound when there is none, and calls no view on the way
C21_FirstMatchingReturned ==
    last.op = "match" =>
        LET candidates == get_views(multiviews[last.ref], last.request)
            first == FirstMatching(candidates, last.context, last.request)
        IN  /\ IF first = 0 THEN last.result.kind = "NotFound"
               ELSE /\ last.result.kind = "view"
                    /\ last.result.view = candidates[first][2]
            /\ \A n \in 1..Len(last.result.trace) :
                  last.result.trace[n][1] = "predicated"
            /\ instances = <<>>

\* the third candidate returned after the predicates of two were false
C21_Witness ==
    /\ last.op = "match"
    /\ last.result.kind = "view"
    /\ Len(last.result.trace) = 2
    /\ Len(get_views(multiviews[last.ref], last.request)) = 3
    /\ last.result.view = get_views(multiviews[last.ref], last.request)[3][2]

\* where in the trace of the last call the event stands (0: nowhere)
At(what, id) ==
    LET at == {n \in 1..Len(last.outcome.trace) :
                  last.outcome.trace[n] = Event(what, id)}
    IN  IF at = {} THEN 0 ELSE CHOOSE n \in at : \A m \in at : n <= m

\* no event of this kind, of whatever view, is in the trace of the last call
Never(what) ==
    \A n \in 1..Len(last.outcome.trace) : last.outcome.trace[n][1] # what

\* C22: a call of a view derived with predicates, a permission (both
\* policies configured) and a wrapper evaluates the predicates, then checks
\* the permission, then calls the raw view, then the wrapper view; a failing
\* predicate raises NotFound with no permission check made, and a denied
\* permission raises Forbidden with neither the raw view nor the wrapper called
C22_LayerOrder ==
    (/\ last.op = "call_view"
     /\ views[last.id].npredicates > 0
     /\ views[last.id].permission # None
     /\ views[last.id].options.wrapper # None
     /\ authn_policy /\ authz_policy)
        => IF \E n \in 1..Len(views[last.id].view.predicates) :
                  ~eval_predicate(views[last.id].view.predicates[n],
                                  last.context, last.request)
           THEN /\ last.outcome.kind = "NotFound"
                /\ Never("permits") /\ Never("view") /\ Never("wrapper")
           ELSE IF ~permits(last.context, effective_principals(last.request),
                            views[last.id].permission)
           THEN /\ last.outcome.kind = "Forbidden"
                /\ Never("view") /\ Never("wrapper")
           ELSE /\ 0 < At("predicates", last.id)
                /\ At("predicates", last.id) < At("permits", last.id)
                /\ At("permits", last.id) < At("view", last.id)
                /\ At("view", last.id) < At("wrapper", last.id)
                /\ \A n \in 1..Len(last.outcome.trace) :
                      last.outcome.trace[n][2] # last.id
                          => At("wrapper", last.id) < n

\* all four steps taken: the wrapper view answers
C22_Witness ==
    /\ last.op = "call_view"
    /\ views[last.id].npredicates > 0
    /\ views[last.id].permission # None
    /\ views[last.id].options.wrapper # None
    /\ last.outcome.kind = "response"
    /\ last.outcome.by # last.id
    /\ At("permits", last.id) > 0

\* what the view under the predicate gate of the called view does
UnderTheGate ==
    call_layer(views[last.id].view, Len(views[last.id].view.layers) - 1,
               last.context, last.request, None, <<>>)

\* C23: a view derived with predicates raises NotFound without calling the
\* view it wraps exactly when its __predicated__ answers false for the same
\* (context, request); when __predicated__ answers true the wrapped view is
\* called and what it returns or raises is the outcome
C23_GateAgreesWithCheck ==
    (/\ last.op = "call_view"
     /\ views[last.id].npredicates > 0
     /\ views[last.id].view.attrs.predicated)
        => LET check == predicated_checker(views[last.id].view,
                                           last.context, last.request)
           IN  /\ (last.outcome.kind = "NotFound" /\ Never("view"))
                     <=> check = "false"
               /\ check = "true" =>
                     /\ last.outcome.kind = UnderTheGate.kind
                     /\ last.outcome.by = UnderTheGate.by
                     /\ last.outcome.msg = UnderTheGate.msg
                     /\ At("view", last.id) > 0 \/ last.outcome.kind = "Forbidden"

\* the predicates hold and the raw view itself raises NotFound
C23_Witness ==
    /\ last.op = "call_view"
    /\ views[last.id].npredicates > 0
    /\ predicated_checker(views[last.id].view, last.context, last.request) = "true"
    /\ last.outcome.kind = "NotFound"
    /\ At("view", last.id) > 0

\* the view was registered with a permission while a policy was missing
DerivedWithoutPolicy(i) ==
    views[i].permission # None /\ ~(views[i].authn /\ views[i].authz)

\* C24: a view derived with a permission while the authentication or the
\* authorization policy is not registered has no __permitted__ and no
\* __call_permissive__, and a call of it makes no permission check and
\* never raises Forbidden, also after the policies are registered
C24_UncheckedWithoutPolicies ==
    /\ \A i \in 1..Len(views) :
          DerivedWithoutPolicy(i) =>
              /\ ~views[i].view.attrs.permitted
              /\ ~views[i].view.attrs.call_permissive
    /\ (last.op = "call_view" /\ DerivedWithoutPolicy(last.id))
          => /\ last.outcome.kind = "response"
             /\ Never("permits")

\* derived with the authentication policy alone, called after both are
\* registered by a request that lacks the permission
C24_Witness ==
    /\ last.op = "call_view"
    /\ views[last.id].permission # None
    /\ views[last.id].authn
    /\ ~views[last.id].authz
    /\ authn_policy /\ authz_policy
    /\ ~permits(last.context, effective_principals(last.request),
                views[last.id].permission)
    /\ last.outcome.kind = "response"

\* the entry of a key: what is registered under it and, for a MultiView,
\* the Candidate Set it holds
entry_of(reg, mvs, key) ==
    LET e == registered(reg, key)
    IN  IF e.t = "multiview" THEN [t |-> "multiview", mv |-> mvs[e.ref]] ELSE e

\* C25: an add_view under one key leaves the entry of every other key,
\* the more general keys included, as it was
C25_OtherEntriesUnchanged ==
    (last.op = "add_view" /\ last.raised = None) =>
        \A key \in Keys \ {views[Len(views)].key} :
            entry_of(registry, multiviews, key)
                = entry_of(last.before.registry, last.before.multiviews, key)

\* C26: while requests run, whatever the other threads and the whole
\* match, __call__, __permitted__ and __call_permissive__ calls in between
\* do, the MultiView a thread is in has the pools and the accept list it had
\* when the thread entered get_views, and the list the thread ends with is
\* the list get_views gives when it runs alone
C26_RequestsDoNotInterfere ==
    \A t \in Threads :
        threads[t].pc # "idle" =>
            /\ multiviews[threads[t].ref] = threads[t].mv0
            /\ threads[t].pc = "done" =>
                   threads[t].views = get_views(threads[t].mv0, threads[t].request)

\* one thread has its list, with views of two accept pools in it, while
\* another thread with another request is in the middle of the loop over
\* the same MultiView, and a whole __call__ has just run
C26_Witness ==
    /\ last.op = "call"
    /\ \E t, u \in Threads :
          /\ threads[t].pc = "done"
          /\ Len(threads[t].views) >= 3
          /\ threads[u].pc = "loop"
          /\ threads[u].ref = threads[t].ref
          /\ threads[u].request # threads[t].request
          /\ threads[u].accepts # <<>>
          /\ Len(threads[u].accepts) < Len(multiviews[threads[u].ref].accepts)

\* no raw view among the candidates raises NotFound of its own
OnlyGatesRaiseNotFound ==
    \A i \in 1..Len(Candidates) : views[Candidates[i][2].id].raw.behaviour # "NotFound"

\* what match gives for the (context, request) of the last __call__
Selected == mv_match(multiviews[last.found.ref], last.context, last.request)

\* C27: when NotFound comes from predicate gates only, __call__ of a
\* MultiView raises NotFound exactly when match does for the same
\* (context, request), and otherwise ends as the view match selects ends
C27_InvokeAgreesWithMatch ==
    (MultiViewCalled /\ OnlyGatesRaiseNotFound) =>
        /\ (last.outcome.kind = "NotFound") <=> (Selected.kind = "NotFound")
        /\ Selected.kind = "view" =>
              LET alone == call_view(Selected.view, last.context, last.request)
              IN  /\ last.outcome.kind = alone.kind
                  /\ last.outcome.by = alone.by

\* what the header option asks of a request: the header is there and, when
\* a value regex is given, its value matches
HeaderHolds(header, request) ==
    LET name == IF HasSep(header) THEN SplitOnce(header)[1] ELSE header
        val == IF HasSep(header) THEN SplitOnce(header)[2] ELSE None
    IN  /\ name \in DOMAIN request.headers
        /\ val # None => re_match(val, request.headers[name])

\* C28: the header predicate answers for every request: a view registered
\* with a header option alone answers when the header is there (and its value
\* matches the regex, if one is given) and raises NotFound when it is not,
\* the absent header included; no other exception comes out of the predicate
C28_HeaderPredicateTotal ==
    (/\ last.op = "call_view"
     /\ views[last.id].options.header # None
     /\ views[last.id].options.request_method = None)
        => last.outcome.kind
              = IF HeaderHolds(views[last.id].options.header, last.request)
                THEN "response" ELSE "NotFound"

\* the shape of a request-only callable: without the self of a method or
\* constructor, one argument, or request first and a default for each of
\* the others
RequestOnlyShape(view) ==
    LET args == IF view.callable = "function" THEN view.args ELSE Tail(view.args)
    IN  \/ Len(args) = 1
        \/ /\ Len(args) > 1
           /\ args[1] = "request"
           /\ view.ndefaults >= Len(args) - 1

\* C29: requestonly, as add_view applies it to the view, answers true for
\* the request-only shapes and false for every other shape, (request, other)
\* without defaults and no arguments included, and raises for none
C29_RequestOnlyShapes ==
    last.op = "add_view" =>
        /\ last.raised = None
        /\ views[Len(views)].view.mapped \in {"requestonly", "class_requestonly"}
              <=> RequestOnlyShape(last.args.view)

\* C30: an add_view that raises ConfigurationError (neither view nor
\* renderer, request_type with route_name, a path_info or header value that
\* is not a regular expression) or ValueError (a renderer name without a
\* factory) leaves the registry as it was: no view is registered and no
\* request interface is registered for the route
C30_RaiseLeavesRegistry ==
    (last.op = "add_view" /\ last.raised \in {"ConfigurationError", "ValueError"})
        => /\ NothingInstalled
           /\ route_requests = last.before.route_requests

\* the called view was registered with a wrapper, and its predicates and
\* its permission let the call through
WrappedViewReached ==
    /\ last.op = "call_view"
    /\ views[last.id].options.wrapper # None
    /\ all_predicates(views[last.id].view.predicates, last.context, last.request) = "true"
    /\ \/ views[last.id].permission = None
       \/ permits(last.context, effective_principals(last.request),
                  views[last.id].permission)

\* no view is registered for (context, request) under the wrapper name
WrapperMissing(wrapper) ==
    lookup(registry, last.context.iface, last.request.type, wrapper) = NoObject

\* C31: a view with a wrapper name calls the raw view before it looks the
\* wrapper view up; when no wrapper view is found the call raises
\* ValueError, not NotFound, and a MultiView whose candidate raised it
\* raises it too and calls no later candidate
C31_WrapperNotFound ==
    /\ WrappedViewReached =>
          /\ 0 < At("view", last.id)
          /\ At("view", last.id) < At("wrapper", last.id)
          /\ WrapperMissing(views[last.id].options.wrapper)
                => last.outcome.kind = "ValueError"
    /\ (/\ MultiViewCalled
        /\ FirstEnding # 0
        /\ Alone(FirstEnding).kind = "ValueError")
          => /\ last.outcome.kind = "ValueError"
             /\ \A j \in (FirstEnding + 1)..Len(Candidates) :
                   \A n \in 1..Len(last.outcome.trace) :
                      last.outcome.trace[n][2] # Candidates[j][2].id

\* the first candidate has a wrapper name nothing is registered under, and
\* the second, left uncalled, would have answered
C31_Witness ==
    /\ MultiViewCalled
    /\ Len(Candidates) = 2
    /\ FirstEnding = 1
    /\ views[Candidates[1][2].id].options.wrapper # None
    /\ WrapperMissing(views[Candidates[1][2].id].options.wrapper)
    /\ last.outcome.kind = "ValueError"
    /\ Alone(2).kind = "response"

\* the view of views[i] as _derive_view builds it from the same arguments
\* under the given debug_authorization setting
Rederived(i, debug) ==
    _derive_view(views[i].view.id, views[i].view.addr, views[i].raw,
                 views[i].permission, views[i].view.predicates,
                 views[i].options.renderer, views[i].options.wrapper,
                 views[i].key[3], views[i].options.accept,
                 views[i].authn, views[i].authz, debug)

\* what a call did, the steps of _authdebug_view left out
WithoutDebug(trace) == SelectSeq(trace, LAMBDA e : e[1] # "authdebug")

\* the outcomes have the same kind, come from the same view and took the
\* same steps apart from those of _authdebug_view
SameOutcome(a, b) ==
    /\ a.kind = b.kind
    /\ a.by = b.by
    /\ WithoutDebug(a.trace) = WithoutDebug(b.trace)

\* C32: a derived view called with (context, request) ends the same way
\* whether it was derived with debug_authorization on or off: the same
\* response from the same view, or NotFound, or Forbidden, whatever the
\* policies answer; only the steps of _authdebug_view are added
C32_DebugChangesNoOutcome ==
    last.op = "call_view" =>
        /\ SameOutcome(last.outcome,
                       call_view(Rederived(last.id, TRUE), last.context, last.request))
        /\ SameOutcome(last.outcome,
                       call_view(Rederived(last.id, FALSE), last.context, last.request))

\* a view derived with debug_authorization on refused a request, with the
\* message _authdebug_view left on the request
C32_Witness ==
    /\ last.op = "call_view"
    /\ At("authdebug", last.id) > 0
    /\ Rederived(last.id, TRUE) = views[last.id].view
    /\ last.outcome.kind = "Forbidden"
    /\ last.outcome.msg = "False"
    /\ call_view(Rederived(last.id, FALSE), last.context, last.request).msg
          = "failed permission check"

\* C33: the renderer is called exactly when the view was given a renderer
\* and the object the raw view returned lacks app_iter, headerlist or
\* status; an object with all three is returned as it is, with nothing
\* rendered and no response_ attribute of the request copied to it
C33_RendererExactlyWhenNeeded ==
    last.op = "call_mapped" =>
        /\ last.response.rendered_by # None
              <=> /\ last.renderer # None
                  /\ \E a \in ResponseAttrs : a \notin last.result.attrs
        /\ ResponseAttrs \subseteq last.result.attrs
              => /\ last.response = last.result
                 /\ last.response.overrides = {}

\* a view with a renderer returned a response while the request carried a
\* response_status, and the response came back untouched
C33_Witness ==
    /\ last.op = "call_mapped"
    /\ last.renderer # None
    /\ ResponseAttrs \subseteq last.result.attrs
    /\ last.request["response_status"] # None
    /\ last.response = last.result

\* the order in which _make_predicates appends the predicates
FixedOrder ==
    <<"xhr", "request_method", "path_info", "request_param", "header",
      "accept", "containment">>

\* the option of the kind was given to add_view (xhr: given as true)
Configured(o, kind) == IF kind = "xhr" THEN o.xhr = TRUE ELSE o[kind] # None

Kinds(predicates) == [i \in 1..Len(predicates) |-> predicates[i].kind]

\* predicate i of the called view answers, without raising
Answers(i, answer) ==
    /\ ~predicate_raises(views[last.id].view.predicates[i], last.context, last.request)
    /\ eval_predicate(views[last.id].view.predicates[i], last.context, last.request)
          = answer

\* predicate i of the called view is the first that is false
FirstFalse(i) == Answers(i, FALSE) /\ \A j \in 1..(i - 1) : Answers(j, TRUE)

\* C34: the predicates of a view are those of the options given, in the
\* order xhr, request_method, path_info, request_param, header, accept,
\* containment, and a call evaluates them up to the first that is false:
\* the view raises NotFound whatever the later predicates would do
C34_FixedOrderShortCircuit ==
    /\ \A i \in 1..Len(views) :
          Kinds(views[i].view.predicates)
            = SelectSeq(FixedOrder, LAMBDA k : Configured(views[i].options, k))
    /\ last.op = "call_view" =>
          \A i \in 1..Len(views[last.id].view.predicates) :
              FirstFalse(i) =>
                  /\ last.outcome.kind = "NotFound"
                  /\ n_evaluated(views[last.id].view.predicates,
                                 last.context, last.request) = i

\* a view with all seven predicates was called with a request whose method
\* is not the view's and that lacks the header: the header predicate, which
\* would have raised, was not reached
C34_Witness ==
    /\ last.op = "call_view"
    /\ Len(views[last.id].view.predicates) = 7
    /\ FirstFalse(2)
    /\ predicate_raises(views[last.id].view.predicates[5], last.context, last.request)
    /\ last.outcome.kind = "NotFound"

\* the weight _make_predicates subtracts for a predicate of the kind
WeightOf(kind) ==
    CASE kind = "xhr" -> W_xhr
      [] kind = "request_method" -> W_request_method
      [] kind = "path_info" -> W_path_info
      [] kind = "request_param" -> W_request_param
      [] kind = "header" -> W_header
      [] kind = "accept" -> W_accept
      [] kind = "containment" -> W_containment

RECURSIVE WeightSum(_)
WeightSum(predicates) ==
    IF predicates = <<>> THEN 0
    ELSE WeightOf(Head(predicates).kind) + WeightSum(Tail(predicates))

\* C35: of two option sets that yield the same number of predicates, the
\* one whose predicates weigh more in sum gets the strictly lower score
C35_HeavierLowerScore ==
    (/\ Scored
     /\ Len(score_out[1].predicates) = Len(score_out[2].predicates)
     /\ WeightSum(score_out[1].predicates) > WeightSum(score_out[2].predicates))
        => score_out[1].score < score_out[2].score

\* six predicates each, ten apart in weight and divided by seven: the
\* closest two such sums come for the largest divisor
C35_Witness ==
    /\ Scored
    /\ Len(score_out[1].predicates) = 6
    /\ Len(score_out[2].predicates) = 6
    /\ WeightSum(score_out[1].predicates) = WeightSum(score_out[2].predicates) + 10
    /\ score_out[1].score < score_out[2].score

\* the pool MultiView.add builds of two views with the two scores computed,
\* the first view allocated at addr1 and the second at addr2: the ids in
\* the order of the pool
PoolOrder(addr1, addr2) ==
    LET order(mv) == [i \in 1..Len(mv.views) |-> mv.views[i][2].id]
    IN  order(mv_add(mv_add(MultiView(""), [id |-> 1, addr |-> addr1],
                            score_out[1].score, None, hash_order),
                     [id |-> 2, addr |-> addr2],
                     score_out[2].score, None, hash_order))

\* C36 as claimed: two option sets that yield different sets of predicate
\* kinds get different scores, and the pool of two such views is in the
\* same order wherever the two function objects are allocated
C36_ScoresOrderPool ==
    (Scored /\ Kinds(score_out[1].predicates) # Kinds(score_out[2].predicates))
        => /\ score_out[1].score # score_out[2].score
           /\ PoolOrder(1, 2) = PoolOrder(2, 1)

\* the threads inside xmlconfig.file of load_zcml
Processing ==
    {t \in Threads : threads[t].pc = "try" /\ threads[t].op = "load_zcml"}

\* C37: at most one thread at a time is inside the xmlconfig.file call of
\* load_zcml, whichever Configurators the calls are made on, and it holds
\* the one lock
C37_OneZcmlAtATime ==
    /\ Cardinality(Processing) <= 1
    /\ \A t \in Processing : \A c \in Configurators : lock[load_zcml_lock(c)] = t

\* one thread is inside xmlconfig.file for one Configurator while another
\* waits in lock.acquire() for another Configurator
C37_Witness ==
    \E t, u \in Threads :
        /\ t \in Processing
        /\ threads[u].pc = "acquire"
        /\ threads[u].op = "load_zcml"
        /\ threads[u].config # threads[t].config

\* C38: when load_zcml or make_wsgi_app has returned or raised, the
\* manager stack of the thread is as deep as before the call and the
\* thread does not hold the lock of load_zcml; with no call under way the
\* lock is free, so that the next lock.acquire() goes through
C38_StackAndLockRestored ==
    /\ \A t \in Threads :
          threads[t].pc \in {"returned", "raised"} =>
              /\ Len(manager[t]) = threads[t].depth
              /\ \A l \in DOMAIN lock : lock[l] # t
    /\ AllIdle => \A l \in DOMAIN lock : lock[l] = 0

\* xmlconfig.file raised in a thread, the call has ended with the
\* exception, and another thread waits in lock.acquire()
C38_Witness ==
    \E t, u \in Threads :
        /\ threads[t].pc = "raised"
        /\ threads[t].op = "load_zcml"
        /\ threads[t].entered
        /\ threads[u].pc = "acquire"
        /\ lock[load_zcml_lock(threads[u].config)] = 0

\* the threads inside get_views
InGetViews == {t \in Threads : threads[t].pc \in {"loop", "extend", "done"}}

\* the (score, view) tuples MultiView.add has put into the MultiView
Added(mv) ==
    seq_range(mv.views)
      \cup UNION {seq_range(mv.media_views[a]) : a \in DOMAIN mv.media_views}

\* a pass of the while loop of thread t either leaves the loop with the
\* list as it is, or takes one accept off the thread's list and extends the
\* list by the pool of that accept
OnePass(t) ==
    (threads[t].pc = "loop" /\ threads'[t] # threads[t]) =>
        \/ /\ threads'[t].pc = "extend"
           /\ threads'[t].views = threads[t].views
        \/ \E a \in seq_range(threads[t].accepts) :
              /\ threads'[t].pc = "loop"
              /\ threads'[t].accepts = list_remove(threads[t].accepts, a)
              /\ Len(threads'[t].accepts) = Len(threads[t].accepts) - 1
              /\ threads'[t].views
                    = threads[t].views \o multiviews[threads[t].ref].media_views[a]

\* the list of a thread holds no tuple twice and only tuples that were
\* added, and the accepts left to the thread are accepts of the MultiView,
\* each once
BoundedList(t) ==
    /\ \A i, j \in 1..Len(threads[t].views) :
          threads[t].views[i] = threads[t].views[j] => i = j
    /\ seq_range(threads[t].views) \subseteq Added(threads[t].mv0)
    /\ seq_range(threads[t].accepts) \subseteq seq_range(threads[t].mv0.accepts)
    /\ Cardinality(seq_range(threads[t].accepts)) = Len(threads[t].accepts)

\* C39: get_views ends for every request: each pass of the while loop that
\* does not leave it removes one accept from a list that starts as the
\* accepts of the MultiView, so there are at most as many passes as accepts;
\* the pool of an accept is taken at most once, and the list returned holds
\* only views that were added
C39_GetViewsTerminates ==
    /\ [](\A t \in InGetViews : BoundedList(t))
    /\ [][\A t \in Threads : OnePass(t)]_vars

\* a thread has the whole list: two accept pools, each taken in a pass of
\* its own, and the generic pool
C39_Witness ==
    \E t \in Threads :
        /\ threads[t].pc = "done"
        /\ Len(threads[t].mv0.accepts) = 2
        /\ threads[t].accepts = <<>>
        /\ threads[t].mv0.views # <<>>
        /\ seq_range(threads[t].views) = Added(threads[t].mv0)

====
